---- MODULE Spec2Model ----
(***************************************************************************)
(* The contextual search pipeline of backend/services/gemini.py            *)
(* (mcp_search and its helpers _check_memory, _store_memory and            *)
(* _sort_by_relevance) as a state machine.                                 *)
(*                                                                         *)
(* A Python string is a sequence of one-character TLA+ strings; a literal  *)
(* fragment of an f-string template is kept as one element.  The module    *)
(* level name pyjson of gemini.py is read as the json module, as the       *)
(* local "import json as pyjson" of the same file does.                    *)
(***************************************************************************)
EXTENDS Naturals, Integers, Sequences, FiniteSets, TLC

\* ------------------------------------------------------------------ bounds

\* Runs that get past the memory check and the no-search return, and so go on
\* to search and to store, in one behaviour of Spec.
MaxSearches == 2

\* ----------------------------------------------------------------- strings

UpperCase == <<"A","B","C","D","E","F","G","H","I","J","K","L","M",
               "N","O","P","Q","R","S","T","U","V","W","X","Y","Z">>

LowerCase == <<"a","b","c","d","e","f","g","h","i","j","k","l","m",
               "n","o","p","q","r","s","t","u","v","w","x","y","z">>

\* The characters str.split() and str.strip() treat as whitespace.
Whitespace == {" ", "\n", "\t"}

\* A JSON value that is not a string (a number), where a string is expected.
JsonNumber == <<"<json number>">>

IsString(v) == v # JsonNumber

LowerChar(c) ==
    IF \E i \in 1..26 : UpperCase[i] = c
    THEN LowerCase[CHOOSE i \in 1..26 : UpperCase[i] = c]
    ELSE c

\* str.lower()
Lower(s) == [i \in 1..Len(s) |-> LowerChar(s[i])]

\* needle in hay
Contains(hay, needle) ==
    \E k \in 0..(Len(hay) - Len(needle)) :
        \A j \in 1..Len(needle) : hay[k + j] = needle[j]

\* seq[:n]
Take(seq, n) == SubSeq(seq, 1, IF Len(seq) < n THEN Len(seq) ELSE n)

\* seq[-n:]
LastN(seq, n) ==
    IF Len(seq) <= n THEN seq ELSE SubSeq(seq, Len(seq) - n + 1, Len(seq))

RECURSIVE LStrip(_)
LStrip(s) ==
    IF s # <<>> /\ Head(s) \in Whitespace THEN LStrip(Tail(s)) ELSE s

RECURSIVE RStrip(_)
RStrip(s) ==
    IF s # <<>> /\ s[Len(s)] \in Whitespace
    THEN RStrip(SubSeq(s, 1, Len(s) - 1))
    ELSE s

\* str.strip()
Strip(s) == RStrip(LStrip(s))

\* The first whitespace-free token of s (s starts with a non-whitespace character).
RECURSIVE FirstToken(_)
FirstToken(s) ==
    IF s = <<>> \/ Head(s) \in Whitespace
    THEN <<>>
    ELSE <<Head(s)>> \o FirstToken(Tail(s))

\* str.split(): the maximal whitespace-free tokens, in order.
RECURSIVE Split(_)
Split(s) ==
    LET t == LStrip(s) IN
    IF t = <<>>
    THEN <<>>
    ELSE LET w == FirstToken(t) IN
         <<w>> \o Split(SubSeq(t, Len(w) + 1, Len(t)))

\* sep.join(parts)
RECURSIVE Join(_, _)
Join(parts, sep) ==
    IF parts = <<>> THEN <<>>
    ELSE IF Len(parts) = 1 THEN parts[1]
    ELSE parts[1] \o sep \o Join(Tail(parts), sep)

DigitChars == <<"0","1","2","3","4","5","6","7","8","9">>

\* The position of a digit character in the character order.
Ord(c) == CHOOSE i \in 1..10 : DigitChars[i] = c

\* str(n) for a natural number n.
RECURSIVE Decimal(_)
Decimal(n) ==
    IF n < 10 THEN <<DigitChars[n + 1]>>
    ELSE Decimal(n \div 10) \o <<DigitChars[(n % 10) + 1]>>

\* a > b for strings of digit characters (Python compares strings lexicographically).
RECURSIVE StrGreater(_, _)
StrGreater(a, b) ==
    IF a = <<>> THEN FALSE
    ELSE IF b = <<>> THEN TRUE
    ELSE IF Head(a) # Head(b) THEN Ord(Head(a)) > Ord(Head(b))
    ELSE StrGreater(Tail(a), Tail(b))

\* ------------------------------------------------- Stage 1: intent extraction

\* dict.get(key, default) found no such key.
Missing == <<"<missing>">>

\* f"I'll search for entries related to your query: {query}"
FallbackResponse(query) ==
    <<"I'll search for entries related to your query: ">> \o query

\* query.lower().split()[:3]
FallbackTerms(query) == Take(Split(Lower(query)), 3)

\* A missing is_search field read as "yes".
IsSearchFieldDefaultYes(reply) ==
    IF reply.is_search = Missing THEN <<"y","e","s">> ELSE reply.is_search

\* parsed.get("is_search", "no")
IsSearchField(reply) ==
    IF reply.is_search = Missing THEN <<"n","o">> ELSE reply.is_search

\* Whether the try block of Stage 1 raises: the request fails, the text is not
\* a JSON object, or is_search has no strip() (it is not a string).
IntentRaises(reply) ==
    \/ reply.http # "ok"
    \/ ~reply.json
    \/ ~IsString(IsSearchField(reply))

\* What kind of reply the generation service gave: a failed request, text
\* that is not a JSON object, an object with a field of the wrong type, or a
\* well-formed object.
ReplyKind(reply) ==
    IF reply.http # "ok" THEN "service_error"
    ELSE IF ~reply.json THEN "not_json"
    ELSE IF \/ ~IsString(reply.is_search)
            \/ ~IsString(reply.response)
            \/ reply.search_terms # Missing
               /\ \E i \in 1..Len(reply.search_terms) :
                      ~IsString(reply.search_terms[i])
    THEN "malformed_fields"
    ELSE "well_formed"

\* The values Stage 1 leaves in is_search, search_terms and stage1_response.
IntentExtract(query, reply) ==
    IF IntentRaises(reply)
    THEN [is_search |-> TRUE,
          search_terms |-> FallbackTerms(query),
          stage1_response |-> FallbackResponse(query)]
    ELSE [is_search |-> Lower(Strip(IsSearchField(reply))) = <<"y","e","s">>,
          search_terms |->
              IF reply.search_terms = Missing THEN <<>> ELSE reply.search_terms,
          stage1_response |->
              IF reply.response = Missing THEN <<>> ELSE reply.response]

\* ------------------------------------------------------ the memory log file

\* memory_store.json: absent, holding a JSON document {"queries": [...]}
\* ("valid"), just truncated by open(..., "w") ("empty"), or holding text
\* that json.load rejects ("corrupt").
AbsentFile == [status |-> "absent", queries |-> <<>>]

ValidFile(queries) == [status |-> "valid", queries |-> queries]

EmptyFile == [status |-> "empty", queries |-> <<>>]

CorruptFile == [status |-> "corrupt", queries |-> <<>>]

\* What any(term.lower() in query_lower for term in entry["search_terms"])
\* does: "match" when a term found in the query comes before any term that
\* is not a string, "raise" when a non-string term comes first (it has no
\* lower()), "none" otherwise.
EntryScan(entry, query_lower) ==
    LET terms == entry.search_terms
        hit(i) == IsString(terms[i]) /\ Contains(query_lower, Lower(terms[i]))
        bad(i) == ~IsString(terms[i])
        dec == {i \in 1..Len(terms) : hit(i) \/ bad(i)}
    IN IF dec = {} THEN "none"
       ELSE LET first == CHOOSE i \in dec : \A j \in dec : i <= j
            IN IF bad(first) THEN "raise" ELSE "match"

\* The index of the entry _check_memory returns, 0 for None.  The scan stops
\* at the first entry that matches or raises; a raise is caught and gives None.
ScanEntries(queries, query) ==
    LET query_lower == Lower(query)
        dec == {k \in 1..Len(queries) :
                   EntryScan(queries[k], query_lower) # "none"}
    IN IF dec = {} THEN 0
       ELSE LET first == CHOOSE k \in dec : \A j \in dec : k <= j
            IN IF EntryScan(queries[first], query_lower) = "match"
               THEN first ELSE 0

\* A memory check that looks for an entry stored with the search terms of
\* the current run.
CheckMemoryByTerms(f, query, search_terms, io_error) ==
    IF f.status # "valid" \/ io_error THEN 0
    ELSE LET same == {k \in 1..Len(f.queries) :
                         f.queries[k].search_terms = search_terms}
         IN IF same = {} THEN 0
            ELSE CHOOSE k \in same : \A j \in same : k <= j

\* A memory check that scans the entries it has from an earlier read when the
\* read fails.
CheckMemoryServesStale(f, query, search_terms, io_error) ==
    IF f.status # "valid" THEN 0 ELSE ScanEntries(f.queries, query)

\* _check_memory(query, search_terms): the index of the entry returned, 0 for
\* None.  io_error: reading the file fails.  search_terms is not used.
CheckMemory(f, query, search_terms, io_error) ==
    IF f.status = "absent" THEN 0
    ELSE IF io_error \/ f.status # "valid" THEN 0
    ELSE ScanEntries(f.queries, query)

\* A memory hit answered with the acknowledgment of Stage 1, as the
\* no-search return does, instead of the stored summary.
HitResponseFromStage1(response, entry) ==
    [response EXCEPT !.memory_used = TRUE,
                     !.final_summary = response.stage1_response]

\* The response returned on a memory hit.
HitResponse(response, entry) ==
    [response EXCEPT !.memory_used = TRUE, !.final_summary = entry.summary]

\* memory["queries"][-49:] of _store_memory.
MemoryKeep == 49

\* The append without the slice: nothing is ever evicted.
StoreListNoEviction(queries, new_entry) == Append(queries, new_entry)

\* The slice taken one entry too long: [-50:] before the append.
StoreListKeepsOneMore(queries, new_entry) ==
    Append(LastN(queries, MemoryKeep + 1), new_entry)

\* The list _store_memory writes back: the last 49 entries read, then new_entry.
StoreList(queries, new_entry) == Append(LastN(queries, MemoryKeep), new_entry)

NewEntry(query, search_terms, summary, timestamp) ==
    [query |-> query, search_terms |-> search_terms,
     summary |-> summary, timestamp |-> timestamp]

\* A writer that adds its new entry to what the file holds at the time of the
\* write instead of overwriting it.
DumpMerged(f, memory) ==
    IF f.status = "valid" /\ memory # <<>>
    THEN {ValidFile(Append(f.queries, memory[Len(memory)]))}
    ELSE {ValidFile(memory)}

\* What json.dump leaves in a file opened with "w": the whole new document
\* when nothing was written since the truncation; when another writer's text
\* is there, the new text overlays it from offset 0 and a longer old text
\* leaves its tail behind.
DumpResults(f, memory) ==
    IF f.status = "empty"
    THEN {ValidFile(memory)}
    ELSE {ValidFile(memory), CorruptFile}

\* --------------------------------------------------- Stage 3: search executor

\* An index query that is never restricted to a user.
FilterStrNoUser(user_id) == <<>>

\* f"user_id:{user_id}" if user_id else ""
FilterStr(user_id) ==
    IF user_id = "" THEN <<>> ELSE <<"user_id:", user_id>>

\* clean_hit: the five fields kept of a hit the index returned.
CleanHit(hit) ==
    [objectID |-> hit.objectID, title |-> hit.title, summary |-> hit.summary,
     tags |-> hit.tags, timestamp |-> hit.timestamp]

\* The inner loop without the truthiness test of objectID: a hit without id is
\* kept, once.
MergeHitsKeepsNoId(acc, hits) ==
    LET firsts == {k \in 1..Len(hits) :
                      /\ hits[k].objectID \notin acc.seen
                      /\ \A m \in 1..(k - 1) :
                             hits[m].objectID # hits[k].objectID}
        kept == SelectSeq([k \in 1..Len(hits) |-> <<k, hits[k]>>],
                          LAMBDA p : p[1] \in firsts)
    IN [results |-> acc.results
                    \o [i \in 1..Len(kept) |-> CleanHit(kept[i][2])],
        seen |-> acc.seen \cup {kept[i][2].objectID : i \in 1..Len(kept)}]

\* The inner loop without the seen_ids test: every hit with a truthy objectID
\* is appended.
MergeHitsNoSeen(acc, hits) ==
    LET kept == SelectSeq(hits, LAMBDA h : h.objectID # "")
    IN [results |-> acc.results \o [i \in 1..Len(kept) |-> CleanHit(kept[i])],
        seen |-> acc.seen \cup {kept[i].objectID : i \in 1..Len(kept)}]

\* The inner loop over one response: a hit is appended when its objectID is
\* truthy and not in seen_ids.  acc = [results, seen].
RECURSIVE MergeHits(_, _)
MergeHits(acc, hits) ==
    IF hits = <<>> THEN acc
    ELSE LET hit == Head(hits)
             obj_id == hit.objectID
         IN MergeHits(
                IF obj_id # "" /\ obj_id \notin acc.seen
                THEN [results |-> Append(acc.results, CleanHit(hit)),
                      seen |-> acc.seen \cup {obj_id}]
                ELSE acc,
                Tail(hits))

\* A score that adds 1 for every tag that contains the term.
RECURSIVE calculate_relevance_per_tag(_, _)
calculate_relevance_per_tag(hit, search_terms) ==
    IF search_terms = <<>> THEN 0
    ELSE LET term_lower == Lower(Head(search_terms)) IN
         (IF Contains(Lower(hit.title), term_lower) THEN 3 ELSE 0)
         + (IF Contains(Lower(hit.summary), term_lower) THEN 2 ELSE 0)
         + Cardinality({t \in 1..Len(hit.tags) :
                           Contains(Lower(hit.tags[t]), term_lower)})
         + calculate_relevance_per_tag(hit, Tail(search_terms))

\* calculate_relevance(hit) for string terms.
RECURSIVE calculate_relevance(_, _)
calculate_relevance(hit, search_terms) ==
    IF search_terms = <<>> THEN 0
    ELSE LET term_lower == Lower(Head(search_terms)) IN
         (IF Contains(Lower(hit.title), term_lower) THEN 3 ELSE 0)
         + (IF Contains(Lower(hit.summary), term_lower) THEN 2 ELSE 0)
         + (IF \E t \in 1..Len(hit.tags) :
                   Contains(Lower(hit.tags[t]), term_lower)
            THEN 1 ELSE 0)
         + calculate_relevance(hit, Tail(search_terms))

\* The key tuple with its two parts swapped: (timestamp, score).
KeyGreaterByDate(a, b, search_terms) ==
    \/ StrGreater(a.timestamp, b.timestamp)
    \/ /\ a.timestamp = b.timestamp
       /\ calculate_relevance(a, search_terms)
              > calculate_relevance(b, search_terms)

\* (score, timestamp) of a > (score, timestamp) of b, as Python compares tuples.
KeyGreater(a, b, search_terms) ==
    LET sa == calculate_relevance(a, search_terms)
        sb == calculate_relevance(b, search_terms)
    IN sa > sb \/ (sa = sb /\ StrGreater(a.timestamp, b.timestamp))

\* A sort that is not stable: hit is put before the elements of equal key.
RECURSIVE InsertDescBeforeEqual(_, _, _)
InsertDescBeforeEqual(sorted, hit, search_terms) ==
    IF sorted = <<>> THEN <<hit>>
    ELSE IF ~KeyGreater(Head(sorted), hit, search_terms)
    THEN <<hit>> \o sorted
    ELSE <<Head(sorted)>>
         \o InsertDescBeforeEqual(Tail(sorted), hit, search_terms)

\* hit put into a list sorted by descending key, after every element whose key
\* is not smaller: sorted(..., reverse=True) keeps equal keys in input order.
RECURSIVE InsertDesc(_, _, _)
InsertDesc(sorted, hit, search_terms) ==
    IF sorted = <<>> THEN <<hit>>
    ELSE IF KeyGreater(hit, Head(sorted), search_terms)
    THEN <<hit>> \o sorted
    ELSE <<Head(sorted)>> \o InsertDesc(Tail(sorted), hit, search_terms)

RECURSIVE SortDesc(_, _, _)
SortDesc(sorted, hits, search_terms) ==
    IF hits = <<>> THEN sorted
    ELSE SortDesc(InsertDesc(sorted, Head(hits), search_terms),
                  Tail(hits), search_terms)

\* A key function that converts every term to text and so never raises.
SortNeverRaises(hits, search_terms) == FALSE

\* Whether _sort_by_relevance raises: the key function calls term.lower() for
\* every hit, so a term that is not a string raises as soon as there is a hit.
SortRaises(hits, search_terms) ==
    hits # <<>> /\ \E i \in 1..Len(search_terms) : ~IsString(search_terms[i])

_sort_by_relevance(hits, search_terms) == SortDesc(<<>>, hits, search_terms)

\* response["algolia_hits"] when the term loop has ended without a failed
\* query: the sorted list, or [] when sorting raised (the except of Stage 3).
RankedHits(algolia_results, search_terms) ==
    IF SortRaises(algolia_results, search_terms)
    THEN <<>>
    ELSE _sort_by_relevance(algolia_results, search_terms)

\* A failed term query that keeps what the earlier terms found.
PartialHits(algolia_results, search_terms) ==
    IF SortRaises(algolia_results, search_terms)
    THEN <<>>
    ELSE SortDesc(<<>>, algolia_results, search_terms)

\* response["algolia_hits"] when a term query has failed: the except of
\* Stage 3 drops what the earlier terms found.
FailedHits(algolia_results, search_terms) == <<>>

\* --------------------------------------------------------- Stage 4: synthesis

NoEntriesSummary == <<"No relevant entries found for your query.">>

\* The template filled with the number of terms instead of the number of hits.
FoundSummaryCountsTerms(n, search_terms) ==
    <<"Found ">> \o Decimal(Len(search_terms))
    \o <<" relevant entries for your query about ">>
    \o Join(search_terms, <<",", " ">>) \o <<".">>

\* f"Found {len(hits)} relevant entries for your query about {', '.join(search_terms)}."
FoundSummary(n, search_terms) ==
    <<"Found ">> \o Decimal(n)
    \o <<" relevant entries for your query about ">>
    \o Join(search_terms, <<",", " ">>) \o <<".">>

\* Whether ', '.join(search_terms) raises (an element is not a string).
JoinRaises(search_terms) ==
    \E i \in 1..Len(search_terms) : ~IsString(search_terms[i])

\* The except branch of Stage 4.  It is outside any try: a raise here leaves
\* mcp_search.
SynthesisFallback(algolia_hits, search_terms) ==
    IF algolia_hits # <<>>
    THEN IF JoinRaises(search_terms)
         THEN [raised |-> TRUE, summary |-> <<>>]
         ELSE [raised |-> FALSE,
               summary |-> FoundSummary(Len(algolia_hits), search_terms)]
    ELSE [raised |-> FALSE, summary |-> NoEntriesSummary]

\* Whether the try block of Stage 4 raises: the request fails, or the text
\* returned has no strip().
SynthesisRaises(reply) == reply.http # "ok" \/ ~IsString(reply.text)

\* response["final_summary"] after Stage 4, and whether mcp_search raised.
Synthesize(reply, algolia_hits, search_terms) ==
    IF SynthesisRaises(reply)
    THEN SynthesisFallback(algolia_hits, search_terms)
    ELSE [raised |-> FALSE,
          summary |-> Strip(IF reply.text = Missing THEN <<>> ELSE reply.text)]

\* ------------------------------------------------------------------- state

\* The worker processes that can each run one mcp_search call at a time.
Slots == {"w1", "w2"}

VARIABLES
    file,       \* memory_store.json
    now,        \* the clock datetime.now() reads
    run,        \* run[s]: the local state of the call worker s is running
    searches,   \* runs that went on to Stage 3 so far (history)
    nWrites,    \* json.dump calls completed so far (history)
    appended,   \* the entries written so far, in the order of their writes
                \* (history, kept by the specifications that say so)
    req,        \* req[s]: the last request the /search endpoint handled on
                \* worker s, and what the endpoint did with it
    stored_by,  \* the user_id of the run that wrote each entry of appended
                \* (history, kept with appended)
    request_counts, \* main.py: request_counts[ip], the times of the requests
                \* of client ip that rate_limit_middleware let through
    admitted,   \* admitted[ip]: the times of all requests of ip let through,
                \* by kind of path (history)
    verdict,    \* what rate_limit_middleware did with the last request
    index,      \* the documents of the search index, in insertion order
    uuids,      \* uuid.uuid4() values drawn so far
    outcomes    \* what each /index call did (history)

\* The state of the middleware and of the /index endpoint, which the steps of
\* mcp_search leave alone.
webVars == <<request_counts, admitted, verdict, index, uuids, outcomes>>

vars == <<file, now, run, searches, nWrites, appended, req, stored_by, webVars>>

\* No request has reached the /search endpoint on a worker.
NoRequest ==
    [auth |-> Missing,
     body |-> [json |-> FALSE, object |-> FALSE, query |-> Missing],
     result |-> [status |-> 0, error |-> <<>>, invoked |-> FALSE]]

\* One external operation of a run, for the run's history.
Op(name, term, filter) == [op |-> name, term |-> term, filter |-> filter]

\* "hitsPerPage": 10 of the request body of an index query.
HitsPerPage == 10

\* An index query that asks for every hit there is.
QueryOpUnpaged(term, filter) ==
    [op |-> "index_query", term |-> term, filter |-> filter,
     hitsPerPage |-> 1000]

\* The index query of Stage 3 for one term, for the run's history.
QueryOp(term, filter) ==
    [op |-> "index_query", term |-> term, filter |-> filter,
     hitsPerPage |-> HitsPerPage]

\* The response dict as mcp_search initialises it.
InitResponse(query, timestamp) ==
    [original_query |-> query,
     search_terms |-> <<>>,
     stage1_response |-> <<>>,
     algolia_hits |-> <<>>,
     final_summary |-> <<>>,
     memory_used |-> FALSE,
     timestamp |-> timestamp]

\* A worker that runs no call.  The fields after memory are history: they
\* record what the run did and are never read by the pipeline.  intent_reply
\* and raw_is_search (the is_search field of the reply as it was returned) are
\* kept until Stage 2, answers and merged (the merged hits before sorting)
\* until Stage 4; scores is kept by the specification of the ranking alone.
Idle ==
    [pc |-> "idle",
     query |-> <<>>,
     user_id |-> "",
     is_search |-> FALSE,
     search_terms |-> <<>>,
     response |-> InitResponse(<<>>, 0),
     algolia_results |-> <<>>,
     seen_ids |-> {},
     term |-> 0,
     memory |-> <<>>,
     ops |-> <<>>,
     intent_failed |-> FALSE,
     synth_failed |-> FALSE,
     query_failed |-> FALSE,
     io_fault |-> FALSE,
     intent_reply |-> "none",
     raw_is_search |-> Missing,
     answers |-> <<>>,
     merged |-> <<>>,
     scores |-> <<>>,
     matched |-> <<>>,
     log_checked |-> <<>>,
     log_read |-> <<>>,
     read_at |-> 0,
     wrote_at |-> 0]

\* The clients of the application, by IP address.
ClientIPs == {"ip1", "ip2"}

\* No request has passed through rate_limit_middleware.
NoVerdict == [ip |-> "", auth_path |-> FALSE, status |-> 0]

\* The process has started: request_counts is an empty defaultdict(list), the
\* index holds no document.
WebInit ==
    /\ request_counts = [ip \in ClientIPs |-> <<>>]
    /\ admitted = [ip \in ClientIPs |-> [auth |-> <<>>, other |-> <<>>]]
    /\ verdict = NoVerdict
    /\ index = <<>>
    /\ uuids = 0
    /\ outcomes = <<>>

Init ==
    /\ file = AbsentFile
    /\ now = 1
    /\ run = [s \in Slots |-> Idle]
    /\ searches = 0
    /\ nWrites = 0
    /\ appended = <<>>
    /\ req = [s \in Slots |-> NoRequest]
    /\ stored_by = <<>>
    /\ WebInit

Busy == {s \in Slots : run[s].pc # "idle"}

\* ----------------------------------------------------------------- actions

\* mcp_search(query, user_id) is called on worker s, while fewer than
\* max_busy calls are running.
StartRun(s, queries, users, max_busy) ==
    /\ run[s].pc = "idle"
    /\ Cardinality(Busy) < max_busy
    /\ \E query \in queries, user_id \in users :
          run' = [run EXCEPT ![s] =
                     [Idle EXCEPT !.pc = "stage1",
                                  !.query = query,
                                  !.user_id = user_id,
                                  !.response = InitResponse(query, now)]]
    /\ UNCHANGED <<file, now, searches, nWrites, appended, req, stored_by, webVars>>

\* Stage 1: the intent generation call and the parse of its reply.
IntentStage(s, replies) ==
    /\ run[s].pc = "stage1"
    /\ \E reply \in replies :
          LET r == run[s]
              x == IntentExtract(r.query, reply)
          IN run' = [run EXCEPT ![s] =
                 [r EXCEPT !.pc = "stage2",
                           !.is_search = x.is_search,
                           !.search_terms = x.search_terms,
                           !.response.search_terms = x.search_terms,
                           !.response.stage1_response = x.stage1_response,
                           !.intent_failed = IntentRaises(reply),
                           !.intent_reply = ReplyKind(reply),
                           !.raw_is_search =
                               IF reply.http = "ok" /\ reply.json
                               THEN reply.is_search ELSE Missing,
                           !.ops = Append(@, Op("generate_intent", <<>>, <<>>))]]
    /\ UNCHANGED <<file, now, searches, nWrites, appended, req, stored_by, webVars>>

\* The state of a run whose term loop has ended without a failed query.
LoopDone(r) ==
    [r EXCEPT !.pc = "stage4",
              !.response.algolia_hits =
                  RankedHits(r.algolia_results, r.search_terms),
              !.merged = r.algolia_results,
              !.algolia_results = <<>>,
              !.seen_ids = {},
              !.term = 0]

\* Stage 2 with a no-search return that goes through the memory storage of
\* Stage 5 before it returns.
MemoryStageStoresNoSearch(s, io_errors, max_searches) ==
    /\ run[s].pc = "stage2"
    /\ \E io_error \in io_errors :
          LET r == [run[s] EXCEPT
                       !.ops = Append(@, Op("memory_read", <<>>, <<>>)),
                       !.intent_reply = "none",
                       !.raw_is_search = Missing,
                       !.io_fault = io_error /\ file.status # "absent",
                       !.log_checked = file.queries]
              k == CheckMemory(file, r.query, r.search_terms, io_error)
          IN IF k # 0
             THEN /\ run' = [run EXCEPT ![s] =
                        [r EXCEPT !.pc = "done",
                                  !.response =
                                      HitResponse(@, file.queries[k]),
                                  !.matched = <<file.queries[k]>>]]
                  /\ UNCHANGED searches
             ELSE IF ~r.is_search
             THEN /\ run' = [run EXCEPT ![s] =
                        [r EXCEPT !.pc = "store_read",
                                  !.response.final_summary =
                                      r.response.stage1_response]]
                  /\ UNCHANGED searches
             ELSE /\ searches < max_searches
                  /\ searches' = searches + 1
                  /\ run' = [run EXCEPT ![s] =
                        IF r.search_terms = <<>>
                        THEN LoopDone(r)
                        ELSE [r EXCEPT !.pc = "stage3", !.term = 1]]
    /\ UNCHANGED <<file, now, nWrites, appended, req, stored_by, webVars>>

\* Stage 2: _check_memory, then the two early returns, else on to Stage 3.
MemoryStage(s, io_errors, max_searches) ==
    /\ run[s].pc = "stage2"
    /\ \E io_error \in io_errors :
          LET r == [run[s] EXCEPT
                       !.ops = Append(@, Op("memory_read", <<>>, <<>>)),
                       !.intent_reply = "none",
                       !.raw_is_search = Missing,
                       !.io_fault = io_error /\ file.status # "absent",
                       !.log_checked = file.queries]
              k == CheckMemory(file, r.query, r.search_terms, io_error)
          IN IF k # 0
             THEN /\ run' = [run EXCEPT ![s] =
                        [r EXCEPT !.pc = "done",
                                  !.response =
                                      HitResponse(@, file.queries[k]),
                                  !.matched = <<file.queries[k]>>]]
                  /\ UNCHANGED searches
             ELSE IF ~r.is_search
             THEN /\ run' = [run EXCEPT ![s] =
                        [r EXCEPT !.pc = "done",
                                  !.response.final_summary =
                                      r.response.stage1_response]]
                  /\ UNCHANGED searches
             ELSE /\ searches < max_searches
                  /\ searches' = searches + 1
                  /\ run' = [run EXCEPT ![s] =
                        IF r.search_terms = <<>>
                        THEN LoopDone(r)
                        ELSE [r EXCEPT !.pc = "stage3", !.term = 1]]
    /\ UNCHANGED <<file, now, nWrites, appended, req, stored_by, webVars>>

\* Stage 3 with one retry: the first failed query of a run is issued again.
SearchStageRetries(s, answers) ==
    /\ run[s].pc = "stage3"
    /\ \E answer \in answers :
          LET r == [run[s] EXCEPT
                       !.ops = Append(@, QueryOp(
                                            run[s].search_terms[run[s].term],
                                            FilterStr(run[s].user_id))),
                       !.answers = Append(@, answer)]
              acc == MergeHits([results |-> r.algolia_results,
                                seen |-> r.seen_ids], answer.hits)
              merged == [r EXCEPT !.algolia_results = acc.results,
                                  !.seen_ids = acc.seen]
          IN run' = [run EXCEPT ![s] =
                 IF answer.http # "ok"
                 THEN IF r.query_failed
                      THEN [r EXCEPT !.pc = "stage4",
                                     !.response.algolia_hits =
                                         FailedHits(r.algolia_results,
                                                    r.search_terms),
                                     !.algolia_results = <<>>,
                                     !.seen_ids = {},
                                     !.term = 0]
                      ELSE [r EXCEPT !.query_failed = TRUE]
                 ELSE IF r.term = Len(r.search_terms)
                 THEN LoopDone(merged)
                 ELSE [merged EXCEPT !.term = @ + 1]]
    /\ UNCHANGED <<file, now, searches, nWrites, appended, req, stored_by, webVars>>

\* Stage 3: one iteration of the loop over search_terms: the index query for
\* the term, and the merge of its hits.  A failed query ends the stage with
\* no hits.
SearchStage(s, answers) ==
    /\ run[s].pc = "stage3"
    /\ \E answer \in answers :
          LET r == [run[s] EXCEPT
                       !.ops = Append(@, QueryOp(
                                            run[s].search_terms[run[s].term],
                                            FilterStr(run[s].user_id))),
                       !.answers = Append(@, answer)]
              acc == MergeHits([results |-> r.algolia_results,
                                seen |-> r.seen_ids], answer.hits)
              merged == [r EXCEPT !.algolia_results = acc.results,
                                  !.seen_ids = acc.seen]
          IN run' = [run EXCEPT ![s] =
                 IF answer.http # "ok"
                 THEN [r EXCEPT !.pc = "stage4",
                                !.response.algolia_hits =
                                    FailedHits(r.algolia_results,
                                               r.search_terms),
                                !.query_failed = TRUE,
                                !.algolia_results = <<>>,
                                !.seen_ids = {},
                                !.term = 0]
                 ELSE IF r.term = Len(r.search_terms)
                 THEN LoopDone(merged)
                 ELSE [merged EXCEPT !.term = @ + 1]]
    /\ UNCHANGED <<file, now, searches, nWrites, appended, req, stored_by, webVars>>

\* Stage 4: the synthesis generation call, or its templated fallback.
SynthesisStage(s, replies) ==
    /\ run[s].pc = "stage4"
    /\ \E reply \in replies :
          LET r == [run[s] EXCEPT
                       !.ops = Append(@, Op("generate_synthesis", <<>>, <<>>)),
                       !.answers = <<>>,
                       !.merged = <<>>,
                       !.synth_failed = SynthesisRaises(reply)]
              x == Synthesize(reply, r.response.algolia_hits, r.search_terms)
          IN run' = [run EXCEPT ![s] =
                 IF x.raised
                 THEN [r EXCEPT !.pc = "raised"]
                 ELSE [r EXCEPT !.pc = "store_read",
                                !.response.final_summary = x.summary]]
    /\ UNCHANGED <<file, now, searches, nWrites, appended, req, stored_by, webVars>>

\* Stage 5, _store_memory up to new_entry: the file is read (a file that
\* exists and cannot be read or parsed raises, and nothing is stored), the
\* list is cut to its last 49 entries and the new entry is appended.
StoreRead(s, io_errors) ==
    /\ run[s].pc = "store_read"
    /\ \E io_error \in io_errors :
          LET r == [run[s] EXCEPT
                       !.ops = Append(@, Op("store_read", <<>>, <<>>)),
                       !.io_fault = @ \/ (io_error /\ file.status # "absent"),
                       !.log_read = file.queries,
                       !.read_at = nWrites]
              new_entry == NewEntry(r.query, r.search_terms,
                                    r.response.final_summary, now)
          IN run' = [run EXCEPT ![s] =
                 IF file.status # "absent" /\ (io_error \/ file.status # "valid")
                 THEN [r EXCEPT !.pc = "done"]
                 ELSE [r EXCEPT !.pc = "store_open",
                                !.memory = StoreList(file.queries, new_entry)]]
    /\ UNCHANGED <<file, now, searches, nWrites, appended, req, stored_by, webVars>>

\* open("memory_store.json", "w"): the file is created or truncated.
StoreOpen(s, io_errors) ==
    /\ run[s].pc = "store_open"
    /\ \E io_error \in io_errors :
          /\ run' = [run EXCEPT ![s] =
                 [@ EXCEPT !.pc = IF io_error THEN "done" ELSE "store_dump",
                           !.io_fault = @ \/ io_error]]
          /\ file' = IF io_error THEN file ELSE EmptyFile
    /\ UNCHANGED <<now, searches, nWrites, appended, req, stored_by, webVars>>

\* pyjson.dump(memory, f, indent=2) and the close of the file.  A failed
\* write leaves the file as it is or with part of the text.
StoreDump(s, io_errors, keep_history) ==
    /\ run[s].pc = "store_dump"
    /\ \E io_error \in io_errors :
          /\ file' \in IF io_error THEN {file, CorruptFile}
                       ELSE DumpResults(file, run[s].memory)
          /\ run' = [run EXCEPT ![s] =
                 [@ EXCEPT !.pc = "done",
                           !.io_fault = @ \/ io_error,
                           !.ops = Append(@, Op("store_write", <<>>, <<>>)),
                           !.wrote_at = IF io_error THEN 0 ELSE nWrites + 1]]
          /\ nWrites' = IF io_error THEN nWrites ELSE nWrites + 1
          /\ appended' = IF keep_history /\ ~io_error
                         THEN Append(appended,
                                     run[s].memory[Len(run[s].memory)])
                         ELSE appended
          /\ stored_by' = IF keep_history /\ ~io_error
                          THEN Append(stored_by, run[s].user_id)
                          ELSE stored_by
    /\ UNCHANGED <<now, searches, req, webVars>>

\* The response is handed to the caller and the worker is free again.
Return(s) ==
    /\ run[s].pc = "done"
    /\ run' = [run EXCEPT ![s] = Idle]
    /\ UNCHANGED <<file, now, searches, nWrites, appended, req, stored_by, webVars>>

\* The clock is set back (a time correction): datetime.now() is not monotonic.
ClockSetBack ==
    /\ now > 0
    /\ run = [s \in Slots |-> Idle]
    /\ now' = now - 1
    /\ UNCHANGED <<file, run, searches, nWrites, appended, req, stored_by, webVars>>

\* ------------------------------------------------------------------ inputs

\* "tell me about my week"
WeekQuery ==
    <<"t","e","l","l"," ","m","e"," ","a","b","o","u","t"," ",
      "m","y"," ","w","e","e","k">>

\* A query of whitespace only.
BlankQuery == <<" ">>

Queries == {WeekQuery, BlankQuery}

\* user_id: a user, or "" for None.
Users == {"u1", ""}

IntentReply(http, json, is_search, search_terms, response) ==
    [http |-> http, json |-> json, is_search |-> is_search,
     search_terms |-> search_terms, response |-> response]

\* What the generation service can answer to the extraction prompt: an error,
\* text that is not JSON, an object whose is_search is a number, and objects
\* that parse, the last one without an is_search field.
IntentReplies ==
    { IntentReply("error", FALSE, Missing, Missing, Missing),
      IntentReply("ok", FALSE, Missing, Missing, Missing),
      IntentReply("ok", TRUE, JsonNumber, <<>>, <<"o","k">>),
      IntentReply("ok", TRUE, <<"Y","e","s"," ">>, << <<"W","e","e","k">> >>,
                  <<"o","k">>),
      IntentReply("ok", TRUE, <<"y","e","s">>, << JsonNumber >>, <<"o","k">>),
      IntentReply("ok", TRUE, <<"y","e","s">>,
                  << <<"s","l","e","e","p">>, <<"w","o","r","k">> >>, Missing),
      IntentReply("ok", TRUE, <<"n","o">>, <<>>, <<"o","k">>),
      IntentReply("ok", TRUE, Missing, <<>>, <<"o","k">>) }

Hit(objectID, title, summary, tags, timestamp) ==
    [objectID |-> objectID, title |-> title, summary |-> summary,
     tags |-> tags, timestamp |-> timestamp, text |-> <<"t","e","x","t">>]

HitA == Hit("1", <<"S","l","e","e","p">>, <<>>, <<>>, <<"1">>)

\* The document of HitA as a later query returns it, after an update.
HitA2 == Hit("1", <<"n","a","p">>, <<"w","o","r","k">>, <<>>, <<"3">>)

HitB == Hit("2", <<>>, <<"w","o","r","k">>, << <<"j","o","b">> >>, <<"2">>)

\* A hit that carries no objectID.
HitNoId == Hit("", <<"w","o","r","k">>, <<>>, <<>>, <<"2">>)

IndexAnswer(http, hits) == [http |-> http, hits |-> hits]

IndexAnswers ==
    { IndexAnswer("error", <<>>),
      IndexAnswer("ok", <<>>),
      IndexAnswer("ok", <<HitA>>),
      IndexAnswer("ok", <<HitA2, HitNoId, HitB>>) }

SynthesisReply(http, text) == [http |-> http, text |-> text]

SynthesisReplies ==
    { SynthesisReply("error", Missing),
      SynthesisReply("ok", <<" ">>),
      SynthesisReply("ok", <<" ","f","i","n","e","\n">>) }

\* ---------------------------------------------------------- specification

\* One worker serves the calls one after the other; every external call may
\* fail.
Worker == {"w1"}

Start(s) == StartRun(s, Queries, Users, 1)

Intent(s) == IntentStage(s, IntentReplies)

Memory(s) == MemoryStage(s, BOOLEAN, MaxSearches)

Search(s) == SearchStage(s, IndexAnswers)

Synthesis(s) == SynthesisStage(s, SynthesisReplies)

Read(s) == StoreRead(s, BOOLEAN)

Open(s) == StoreOpen(s, BOOLEAN)

Dump(s) == StoreDump(s, BOOLEAN, FALSE)

Next ==
    \E s \in Worker :
        \/ Start(s)
        \/ Intent(s)
        \/ Memory(s)
        \/ Search(s)
        \/ Synthesis(s)
        \/ Read(s)
        \/ Open(s)
        \/ Dump(s)
        \/ Return(s)

Spec == Init /\ [][Next]_vars

\* Two workers serve calls concurrently, for one query and one user.
RaceIntentReplies ==
    { IntentReply("error", FALSE, Missing, Missing, Missing),
      IntentReply("ok", TRUE, <<"n","o">>, <<>>, <<"o","k">>) }

RaceIndexAnswers == { IndexAnswer("error", <<>>), IndexAnswer("ok", <<HitA>>) }

RaceSynthesisReplies ==
    { SynthesisReply("error", Missing),
      SynthesisReply("ok", <<"f","i","n","e">>) }

RaceStart(s) == StartRun(s, {WeekQuery}, {"u1"}, 2)

RaceIntent(s) == IntentStage(s, RaceIntentReplies)

RaceSearch(s) == SearchStage(s, RaceIndexAnswers)

RaceSynthesis(s) == SynthesisStage(s, RaceSynthesisReplies)

RaceNext ==
    \E s \in Slots :
        \/ RaceStart(s)
        \/ RaceIntent(s)
        \/ Memory(s)
        \/ RaceSearch(s)
        \/ RaceSynthesis(s)
        \/ Read(s)
        \/ Open(s)
        \/ Dump(s)
        \/ Return(s)

RaceSpec == Init /\ [][RaceNext]_vars

\* One worker serves a long sequence of calls that each search (with an empty
\* list of terms) and store, no call failing, and the history of the entries
\* written is kept.
MaxLogRuns == 52

LogIntentReplies == { IntentReply("ok", TRUE, <<"y","e","s">>, <<>>, <<>>) }

LogSynthesisReplies == { SynthesisReply("ok", <<"f","i","n","e">>) }

LogStart(s) == StartRun(s, {BlankQuery}, {"u1"}, 1)

LogIntent(s) == IntentStage(s, LogIntentReplies)

LogMemory(s) == MemoryStage(s, {FALSE}, MaxLogRuns)

LogSynthesis(s) == SynthesisStage(s, LogSynthesisReplies)

LogRead(s) == StoreRead(s, {FALSE})

LogOpen(s) == StoreOpen(s, {FALSE})

LogDump(s) == StoreDump(s, {FALSE}, TRUE)

LogNext ==
    \/ \E s \in Worker :
           \/ LogStart(s)
           \/ LogIntent(s)
           \/ LogMemory(s)
           \/ LogSynthesis(s)
           \/ LogRead(s)
           \/ LogOpen(s)
           \/ LogDump(s)
           \/ Return(s)
    \/ ClockSetBack

LogSpec == Init /\ [][LogNext]_vars

\* ------------------------------------------------------------------ claims

\* Whether run s has performed the external operation name.
Did(s, name) == \E i \in 1..Len(run[s].ops) : run[s].ops[i].op = name

\* The number of index queries run s has issued.
NumQueries(s) ==
    Cardinality({i \in 1..Len(run[s].ops) : run[s].ops[i].op = "index_query"})

\* The elements of a sequence.
Range(f) == {f[i] : i \in DOMAIN f}

ResponseFields ==
    {"original_query", "search_terms", "stage1_response", "algolia_hits",
     "final_summary", "memory_used", "timestamp"}

\* C1: mcp_search never raises for a string query: whatever fails (the intent
\* call, an index query, the synthesis call, the reads and the write of the
\* memory log), no run leaves mcp_search by an exception, and a run that has
\* returned carries a response with the seven fields.
C1_NeverRaises ==
    \A s \in Slots :
        /\ run[s].pc # "raised"
        /\ run[s].pc = "done" => DOMAIN run[s].response = ResponseFields

\* A run has returned although its intent call, an index query, its synthesis
\* call and an access to the memory log all failed.
C1_Witness ==
    \E s \in Slots :
        /\ run[s].pc = "done"
        /\ run[s].intent_failed
        /\ run[s].query_failed
        /\ run[s].synth_failed
        /\ run[s].io_fault

\* Whether some stored search term of some entry of log is a string contained
\* in query, case ignored.
LogMatches(log, query) ==
    \E k \in 1..Len(log) :
        \E i \in 1..Len(log[k].search_terms) :
            /\ IsString(log[k].search_terms[i])
            /\ Contains(Lower(query), Lower(log[k].search_terms[i]))

\* C2: memory short-circuit: a run whose memory check read a log holding an
\* entry one of whose stored search terms is a case-insensitive substring of
\* the query returns memory_used = true and issues no index query and no
\* synthesis call.
C2_MemoryShortCircuit ==
    \A s \in Slots :
        (/\ Did(s, "memory_read")
         /\ ~run[s].io_fault
         /\ LogMatches(run[s].log_checked, run[s].query))
        => /\ run[s].response.memory_used
           /\ ~Did(s, "index_query")
           /\ ~Did(s, "generate_synthesis")

\* C3: in every response, memory_used = true implies that algolia_hits is
\* empty and final_summary is the summary of the entry that matched, an entry
\* of the log the memory check read.
C3_MemoryUsedResponse ==
    \A s \in Slots :
        run[s].response.memory_used
        => /\ run[s].response.algolia_hits = <<>>
           /\ Len(run[s].matched) = 1
           /\ run[s].matched[1] \in Range(run[s].log_checked)
           /\ run[s].response.final_summary = run[s].matched[1].summary

\* A run has returned a memory hit whose summary is not empty.
C3_Witness ==
    \E s \in Slots :
        /\ run[s].pc = "done"
        /\ run[s].response.memory_used
        /\ run[s].response.final_summary # <<>>
        /\ run[s].response.final_summary # run[s].response.stage1_response

\* All hits the answers hold, in the order they were returned.
RECURSIVE AllHits(_)
AllHits(answers) ==
    IF answers = <<>> THEN <<>>
    ELSE Head(answers).hits \o AllHits(Tail(answers))

\* The merged hits of run s: the list being built in Stage 3, the ranked list
\* afterwards.
MergedHits(s) ==
    IF run[s].pc = "stage3" THEN run[s].algolia_results
    ELSE run[s].response.algolia_hits

\* C4: dedup invariant: the merged hit sequence of a run holds each document
\* id at most once, and the copy it holds is the first one returned, by the
\* earliest term query that returned that id.
C4_Dedup ==
    \A s \in Slots :
        LET hs == MergedHits(s)
            all == AllHits(run[s].answers)
        IN /\ \A i, j \in 1..Len(hs) :
                  i # j => hs[i].objectID # hs[j].objectID
           /\ run[s].pc \in {"stage3", "stage4"}
              => \A i \in 1..Len(hs) :
                     \E k \in 1..Len(all) :
                         /\ all[k].objectID = hs[i].objectID
                         /\ \A m \in 1..(k - 1) :
                                all[m].objectID # hs[i].objectID
                         /\ hs[i] = CleanHit(all[k])

\* Two term queries returned the document "1", the second one a different
\* copy and a hit without id, and the ranked hits hold the first copy and the
\* document "2".
C4_Witness ==
    \E s \in Slots :
        /\ run[s].pc = "stage4"
        /\ Len(run[s].answers) = 2
        /\ run[s].answers[1].hits = <<HitA>>
        /\ run[s].answers[2].hits = <<HitA2, HitNoId, HitB>>
        /\ run[s].response.algolia_hits = <<CleanHit(HitA), CleanHit(HitB)>>

\* C6: fallback completeness: with every generation call of the run failing,
\* mcp_search("tell me about my week", user_id="u1") does not raise and
\* returns a final_summary that is not empty, whatever the memory log holds
\* and whatever the index answers.
C6_FallbackCompleteness ==
    \A s \in Slots :
        (/\ run[s].query = WeekQuery
         /\ run[s].user_id = "u1"
         /\ run[s].intent_failed
         /\ Did(s, "generate_synthesis") => run[s].synth_failed)
        => /\ run[s].pc # "raised"
           /\ run[s].pc = "done" => run[s].response.final_summary # <<>>

\* The entry a run that has reached the Memory Writer stores.
OwnEntry(s, timestamp) ==
    NewEntry(run[s].query, run[s].search_terms,
             run[s].response.final_summary, timestamp)

\* C7: in a sequential execution, a run that reached the Synthesizer has, when
\* it returns, appended exactly one entry with its query, search_terms and
\* final_summary to the log it found (an absent or unparseable log counting
\* as empty), the entries already there being unchanged but for the eviction
\* of the oldest.  Runs in which a file operation itself failed are left out.
C7_AppendsOneEntry ==
    \A s \in Slots :
        (/\ run[s].pc = "done"
         /\ Did(s, "generate_synthesis")
         /\ ~run[s].io_fault)
        => \E t \in 0..1 :
               file = ValidFile(StoreList(run[s].log_read, OwnEntry(s, t)))

\* C9: abort-all policy of the Search Executor: once a term query of a run has
\* failed, the run's algolia_hits is empty, the run issues no further term
\* query, and it goes on to synthesis (whose fallback, if taken, is the
\* no-entries text) and to memory storage.
C9_AbortAll ==
    \A s \in Slots :
        run[s].query_failed
        => /\ run[s].response.algolia_hits = <<>>
           /\ run[s].pc \in {"stage4", "store_read", "store_open",
                             "store_dump", "done"}
           /\ run[s].pc = "stage4"
              => /\ NumQueries(s) = Len(run[s].answers)
                 /\ run[s].answers[Len(run[s].answers)].http # "ok"
                 /\ \A i \in 1..(Len(run[s].answers) - 1) :
                        run[s].answers[i].http = "ok"
           /\ run[s].pc # "stage4"
              => /\ Did(s, "generate_synthesis")
                 /\ NumQueries(s) <= Len(run[s].search_terms)
                 /\ run[s].synth_failed
                    => run[s].response.final_summary = NoEntriesSummary
           /\ run[s].pc = "done" => Did(s, "store_read")

\* The second term query of a run failed after the first had returned a hit,
\* and the run is at the Synthesizer with no hits.
C9_Witness ==
    \E s \in Slots :
        /\ run[s].pc = "stage4"
        /\ run[s].query_failed
        /\ Len(run[s].answers) = 2
        /\ run[s].answers[1].hits = <<HitA>>
        /\ Len(run[s].search_terms) = 3
        /\ run[s].response.algolia_hits = <<>>

\* C10: intent failure policy: after a failure of the intent stage (a service
\* error, text that is not JSON, malformed fields) the run has is_search =
\* true, search_terms = the first three whitespace-separated tokens of the
\* lowercased query and the templated stage1_response; search_terms is then
\* not empty when the query has a character that is not whitespace.
C10_IntentFallback ==
    \A s \in Slots :
        (/\ run[s].pc = "stage2"
         /\ run[s].intent_reply
                \in {"service_error", "not_json", "malformed_fields"})
        => /\ run[s].is_search
           /\ run[s].search_terms = Take(Split(Lower(run[s].query)), 3)
           /\ run[s].response.search_terms = run[s].search_terms
           /\ run[s].response.stage1_response =
                  <<"I'll search for entries related to your query: ">>
                  \o run[s].query
           /\ (\E i \in 1..Len(run[s].query) :
                   run[s].query[i] \notin Whitespace)
              => run[s].search_terms # <<>>

\* The bound of the memory log ("Keep only last 50 queries").
MemoryLimit == 50

\* C5: log bound: in a sequence of runs that each reach the Memory Writer,
\* starting from an absent log, the log holds the entries appended so far, in
\* append order, cut to the 50 most recent: exactly 50 entries once 50 or more
\* were appended, whatever their timestamps.
C5_LogBound ==
    file.status = "valid"
    => /\ file.queries = LastN(appended, MemoryLimit)
       /\ Len(appended) >= MemoryLimit => Len(file.queries) = MemoryLimit
       /\ Len(appended) = nWrites

\* More than 50 entries were appended, the first of them are gone, and the
\* oldest entry kept carries a later timestamp than the newest.
C5_Witness ==
    /\ file.status = "valid"
    /\ Len(appended) > MemoryLimit
    /\ Len(file.queries) = MemoryLimit
    /\ file.queries[1] = appended[Len(appended) - MemoryLimit + 1]
    /\ file.queries[1].timestamp > file.queries[MemoryLimit].timestamp

\* Runs a and b raced on the log: both read it before either wrote, then a
\* wrote and b wrote after it, these being the last two writes, and both have
\* returned.
Raced(a, b) ==
    /\ a # b
    /\ run[a].pc = "done"
    /\ run[b].pc = "done"
    /\ nWrites >= 2
    /\ run[b].wrote_at = nWrites
    /\ run[a].wrote_at = nWrites - 1
    /\ run[a].read_at = nWrites - 2
    /\ run[b].read_at = nWrites - 2

\* C8: lost update: when two concurrent runs both read the log before either
\* writes and both write without error, the log is what the later writer
\* wrote: the log both read (cut to 49) and the later writer's entry.  It has
\* grown by one entry, not two: the earlier writer's entry is lost.
C8_LostUpdate ==
    \A a, b \in Slots :
        (Raced(a, b) /\ file.status = "valid")
        => /\ run[a].log_read = run[b].log_read
           /\ file.queries = run[b].memory
           /\ \E t \in 0..1 :
                  file.queries = StoreList(run[b].log_read, OwnEntry(b, t))
           /\ Len(file.queries) = Len(LastN(run[a].log_read, MemoryKeep)) + 1
           /\ file.queries # run[a].memory \o <<OwnEntry(b, 1)>>

\* Two runs raced, both wrote, and the log holds one entry.
C8_Witness ==
    \E a, b \in Slots :
        /\ Raced(a, b)
        /\ file.status = "valid"
        /\ nWrites = 2
        /\ Len(file.queries) = 1

\* C11: synthesizer failure policy: after a failed synthesis call the run has
\* not raised and final_summary is "Found N relevant entries for your query
\* about <terms joined by ', '>." with N the number of ranked hits when there
\* are hits, and "No relevant entries found for your query." when there are
\* none.
C11_SynthesisFallback ==
    \A s \in Slots :
        run[s].synth_failed
        => /\ run[s].pc # "raised"
           /\ LET hits == run[s].response.algolia_hits
                  summary == run[s].response.final_summary
              IN IF hits # <<>>
                 THEN summary =
                          <<"Found ">> \o Decimal(Len(hits))
                          \o <<" relevant entries for your query about ">>
                          \o Join(run[s].search_terms, <<",", " ">>)
                          \o <<".">>
                 ELSE summary =
                          <<"No relevant entries found for your query.">>

\* A failed synthesis call after two hits were found for the terms sleep and
\* work: the summary is "Found 2 relevant entries for your query about
\* sleep, work."
C11_Witness ==
    \E s \in Slots :
        /\ run[s].synth_failed
        /\ Len(run[s].response.algolia_hits) = 2
        /\ run[s].response.final_summary =
               <<"Found ", "2", " relevant entries for your query about ",
                 "s","l","e","e","p", ",", " ", "w","o","r","k", ".">>

\* C12: memory read errors are local: when a run performs its memory check
\* while the log file is absent, unparseable, or cannot be read, the check
\* gives no match and raises nothing, and the run goes on as with an empty
\* log: to the no-search return (final_summary = stage1_response) when
\* is_search is false, else to the Search Executor with its response as it was.
C12_ReadErrorsLocal ==
    [][\A s \in Slots :
          (/\ run[s].pc = "stage2"
           /\ run'[s].pc # "stage2"
           /\ (file.status # "valid" \/ run'[s].io_fault))
          => /\ ~run'[s].response.memory_used
             /\ run'[s].matched = <<>>
             /\ IF run[s].is_search
                THEN /\ run'[s].response = run[s].response
                     /\ run'[s].pc = IF run[s].search_terms = <<>>
                                     THEN "stage4" ELSE "stage3"
                ELSE /\ run'[s].response =
                            [run[s].response EXCEPT
                                !.final_summary = run[s].response.stage1_response]
                     /\ run'[s].pc = "done"]_vars

\* A run whose memory check could not read a log that holds a matching entry
\* is at the Search Executor without a memory hit.
C12_Witness ==
    \E s \in Slots :
        /\ run[s].pc = "stage3"
        /\ run[s].io_fault
        /\ LogMatches(run[s].log_checked, run[s].query)
        /\ ~run[s].response.memory_used

\* ------------------------------------------------------------ ranking alone

\* _sort_by_relevance applied to lists of up to MaxRankHits distinct hits.
MaxRankHits == 3

Sleep == <<"s","l","e","e","p">>

\* Hits as Stage 3 hands them to _sort_by_relevance: the term "sleep" is in the
\* title (HitTitle), in a tag only (HitTag, HitTag2: same score and
\* timestamp), in the summary (HitSummary), in title and tag (HitTitleTag),
\* in two tags (HitTwoTags), nowhere (HitNone).
HitTitle == CleanHit(Hit("t", <<"S","l","e","e","p","y">>, <<>>, <<>>, <<"1">>))

HitTag == CleanHit(Hit("g", <<>>, <<>>, << <<"j","o","b">>, Sleep >>, <<"3">>))

HitTag2 == CleanHit(Hit("h", <<"n","a","p">>, <<>>, << Sleep >>, <<"3">>))

HitSummary == CleanHit(Hit("s", <<>>, <<"n","o"," ">> \o Sleep, <<>>, <<"2">>))

HitTitleTag == CleanHit(Hit("b", Sleep, <<>>, << Sleep >>, <<"2">>))

HitNone == CleanHit(Hit("n", <<"j","o","b">>, <<>>, <<>>, <<"3">>))

HitTwoTags ==
    CleanHit(Hit("w", <<>>, <<>>,
                 << Sleep, <<"S","l","e","e","p","y">> >>, <<"1">>))

RankHits ==
    {HitTitle, HitTag, HitTag2, HitSummary, HitTitleTag, HitTwoTags, HitNone}

\* The lists of 2..MaxRankHits distinct hits.
RankInputs ==
    {hs \in UNION {[1..n -> RankHits] : n \in 2..MaxRankHits} :
        \A i, j \in 1..Len(hs) : i # j => hs[i] # hs[j]}

RankTerms ==
    { << Sleep >>,
      << <<"S","L","E","E","P">> >>,
      << <<"j","o","b">>, Sleep >>,
      << Sleep, Sleep >> }

\* A run at the end of the term loop, with hits merged and not yet sorted.
RankInit ==
    /\ file = AbsentFile
    /\ now = 1
    /\ searches = 0
    /\ nWrites = 0
    /\ appended = <<>>
    /\ req = [s \in Slots |-> NoRequest]
    /\ stored_by = <<>>
    /\ WebInit
    /\ \E hits \in RankInputs, search_terms \in RankTerms :
          run = [s \in Slots |->
                    IF s \in Worker
                    THEN [Idle EXCEPT !.pc = "sort",
                                      !.search_terms = search_terms,
                                      !.algolia_results = hits]
                    ELSE Idle]

\* sorted_results = _sort_by_relevance(algolia_results, search_terms); the
\* list sorted is kept in algolia_results.
SortStep(s) ==
    /\ run[s].pc = "sort"
    /\ run' = [run EXCEPT ![s] =
           [@ EXCEPT !.pc = "sorted",
                     !.scores =
                         [i \in 1..Len(run[s].algolia_results) |->
                             calculate_relevance(run[s].algolia_results[i],
                                                 run[s].search_terms)],
                     !.response.algolia_hits =
                         _sort_by_relevance(run[s].algolia_results,
                                            run[s].search_terms)]]
    /\ UNCHANGED <<file, now, searches, nWrites, appended, req, stored_by, webVars>>

\* _sort_by_relevance applied to the list an earlier call returned, with the
\* same terms; algolia_results keeps the list handed in.
ResortStep(s) ==
    /\ run[s].pc = "sorted"
    /\ LET ranked == run[s].response.algolia_hits IN
       run' = [run EXCEPT ![s] =
           [@ EXCEPT !.pc = "resorted",
                     !.algolia_results = ranked,
                     !.scores =
                         [i \in 1..Len(ranked) |->
                             calculate_relevance(ranked[i],
                                                 run[s].search_terms)],
                     !.response.algolia_hits =
                         _sort_by_relevance(ranked, run[s].search_terms)]]
    /\ UNCHANGED <<file, now, searches, nWrites, appended, req, stored_by, webVars>>

RankNext == \E s \in Worker : SortStep(s) \/ ResortStep(s)

RankSpec == RankInit /\ [][RankNext]_vars

\* Whether the lowercased term is in the title, in the summary, in a tag of hit.
InTitle(hit, term) == Contains(Lower(hit.title), Lower(term))

InSummary(hit, term) == Contains(Lower(hit.summary), Lower(term))

InTags(hit, term) ==
    \E t \in 1..Len(hit.tags) : Contains(Lower(hit.tags[t]), Lower(term))

\* C13: ranking preference: for a single search term, a hit whose title
\* contains the term comes before every hit that matches the term through a
\* tag only, whatever their timestamps and their order in the input.
C13_TitleBeforeTag ==
    \A s \in Slots :
        (run[s].pc = "sorted" /\ Len(run[s].search_terms) = 1)
        => LET out == run[s].response.algolia_hits
               term == run[s].search_terms[1]
           IN /\ Len(out) = Len(run[s].algolia_results)
              /\ Range(out) = Range(run[s].algolia_results)
              /\ \A i, j \in 1..Len(out) :
                     (/\ InTitle(out[i], term)
                      /\ ~InTitle(out[j], term)
                      /\ ~InSummary(out[j], term)
                      /\ InTags(out[j], term))
                     => i < j

\* The input had the tag-only hit, of later timestamp, before the title hit,
\* and the sorted list has the title hit first.
C13_Witness ==
    \E s \in Slots :
        /\ run[s].pc = "sorted"
        /\ run[s].search_terms = << Sleep >>
        /\ run[s].algolia_results = <<HitTag, HitTitle>>
        /\ run[s].response.algolia_hits = <<HitTitle, HitTag>>

\* ------------------------------------------------------ the /search endpoint

\* A JSON null.
JsonNull == <<"<json null>">>

\* An Authorization header is a sequence of characters in which the scheme
\* word and a token are each kept as one element.
StartsWith(s, prefix) ==
    Len(s) >= Len(prefix) /\ SubSeq(s, 1, Len(prefix)) = prefix

\* The first piece of s.split(" "): what precedes the first space.
RECURSIVE FirstPiece(_)
FirstPiece(s) ==
    IF s = <<>> \/ Head(s) = " " THEN <<>>
    ELSE <<Head(s)>> \o FirstPiece(Tail(s))

\* s.split(" "): the pieces between single spaces, empty pieces included.
RECURSIVE SplitOnSpace(_)
SplitOnSpace(s) ==
    LET w == FirstPiece(s) IN
    IF Len(w) = Len(s) THEN <<w>>
    ELSE <<w>> \o SplitOnSpace(SubSeq(s, Len(w) + 2, Len(s)))

\* supabase.auth.get_user(token).user for the sessions that exist: the id of
\* the user, "" for None.
SessionUser(token) ==
    IF token = <<"tokA">> THEN "u1"
    ELSE IF token = <<"tokB">> THEN "u2"
    ELSE ""

\* A token check that trusts whatever get_user returns, without the test of
\* user_response.user.
GetUserUnchecked(auth_header, auth_up) ==
    IF auth_header = Missing \/ auth_header = <<>>
       \/ ~StartsWith(auth_header, <<"Bearer", " ">>)
    THEN [status |-> 401, user |-> ""]
    ELSE IF ~auth_up THEN [status |-> 401, user |-> ""]
    ELSE [status |-> 200, user |-> SessionUser(SplitOnSpace(auth_header)[2])]

\* get_user_from_token(request): status 401 for the HTTPException, else the
\* user.  auth_up: the call of the auth service does not raise.
get_user_from_token(auth_header, auth_up) ==
    IF auth_header = Missing \/ auth_header = <<>>
       \/ ~StartsWith(auth_header, <<"Bearer", " ">>)
    THEN [status |-> 401, user |-> ""]
    ELSE LET token == SplitOnSpace(auth_header)[2] IN
         IF ~auth_up \/ SessionUser(token) = ""
         THEN [status |-> 401, user |-> ""]
         ELSE [status |-> 200, user |-> SessionUser(token)]

MissingQueryError == <<"Missing required field: query">>

\* What search(request) does up to the call of mcp_search: the HTTP status,
\* the error of the body returned, and whether mcp_search is called and with
\* what arguments.
SearchGate(auth_header, body, auth_up) ==
    LET u == get_user_from_token(auth_header, auth_up)
        query == IF body.query = Missing THEN <<>> ELSE body.query
        refuse(status, error) ==
            [status |-> status, error |-> error, invoked |-> FALSE,
             query |-> <<>>, user_id |-> ""]
    IN IF u.status = 401 THEN refuse(401, <<>>)
       ELSE IF ~body.json \/ ~body.object THEN refuse(500, <<>>)
       ELSE IF query = <<>> \/ query = JsonNull
       THEN refuse(200, MissingQueryError)
       ELSE [status |-> 200, error |-> <<>>, invoked |-> TRUE,
             query |-> query, user_id |-> u.user]

\* The Authorization headers of the requests: none, an empty one, another
\* scheme, a session of each user, a token followed by more text, an unknown
\* token, no token, a token after two spaces.
AuthHeaders ==
    { Missing,
      <<>>,
      <<"Basic", " ", "tokA">>,
      <<"Bearer", " ", "tokA">>,
      <<"Bearer", " ", "tokB">>,
      <<"Bearer", " ", "tokB", " ", "tokA">>,
      <<"Bearer", " ", "tokX">>,
      <<"Bearer", " ">>,
      <<"Bearer", " ", " ", "tokA">> }

Body(json, object, query) == [json |-> json, object |-> object, query |-> query]

\* The request bodies: text that is not JSON, a JSON list, and objects with
\* no query, an empty one, null, a blank one and a sentence.
Bodies ==
    { Body(FALSE, FALSE, Missing),
      Body(TRUE, FALSE, Missing),
      Body(TRUE, TRUE, Missing),
      Body(TRUE, TRUE, <<>>),
      Body(TRUE, TRUE, JsonNull),
      Body(TRUE, TRUE, BlankQuery),
      Body(TRUE, TRUE, WeekQuery) }

\* POST /search handled on worker s, up to the call of mcp_search.
SearchEndpoint(s, headers, bodies) ==
    /\ run[s].pc = "idle"
    /\ Busy = {}
    /\ \E auth_header \in headers, body \in bodies, auth_up \in BOOLEAN :
          LET g == SearchGate(auth_header, body, auth_up) IN
          /\ req' = [req EXCEPT ![s] =
                        [auth |-> auth_header, body |-> body,
                         result |-> [status |-> g.status, error |-> g.error,
                                     invoked |-> g.invoked]]]
          /\ run' = IF g.invoked
                    THEN [run EXCEPT ![s] =
                             [Idle EXCEPT !.pc = "stage1",
                                          !.query = g.query,
                                          !.user_id = g.user_id,
                                          !.response =
                                              InitResponse(g.query, now)]]
                    ELSE run
    /\ UNCHANGED <<file, now, searches, nWrites, appended, stored_by, webVars>>

Request(s) == SearchEndpoint(s, AuthHeaders, Bodies)

\* One worker serves the requests to /search one after the other.
EndpointNext ==
    \E s \in Worker :
        \/ Request(s)
        \/ RaceIntent(s)
        \/ Memory(s)
        \/ RaceSearch(s)
        \/ RaceSynthesis(s)
        \/ Read(s)
        \/ Open(s)
        \/ Dump(s)
        \/ Return(s)

EndpointSpec == Init /\ [][EndpointNext]_vars

\* The user whose session token the header bears after "Bearer ", "" if none.
BearerUser(auth_header) ==
    IF /\ auth_header # Missing
       /\ Len(auth_header) >= 3
       /\ auth_header[1] = "Bearer"
       /\ auth_header[2] = " "
       /\ Len(auth_header) > 3 => auth_header[4] = " "
    THEN IF auth_header[3] = "tokA" THEN "u1"
         ELSE IF auth_header[3] = "tokB" THEN "u2"
         ELSE ""
    ELSE ""

\* C14: the /search endpoint calls mcp_search only for a request whose bearer
\* token is the session of a user and whose body carries a non-empty query,
\* and then with that query and that user's id; an authenticated request
\* whose JSON body has no query or an empty one gets the error result
\* "Missing required field: query" and mcp_search is not called.
C14_SearchGate ==
    \A s \in Slots :
        /\ (run[s].pc # "idle" \/ req[s].result.invoked)
           => /\ req[s].result.invoked
              /\ req[s].result.status = 200
              /\ BearerUser(req[s].auth) # ""
              /\ req[s].body.query \notin {Missing, <<>>, JsonNull}
              /\ run[s].pc # "idle"
                 => /\ run[s].query = req[s].body.query
                    /\ run[s].user_id = BearerUser(req[s].auth)
        /\ (/\ req[s].result.status \in {200, 500}
            /\ req[s].body.json
            /\ req[s].body.object
            /\ req[s].body.query \in {Missing, <<>>})
           => /\ req[s].result =
                     [status |-> 200,
                      error |-> <<"Missing required field: query">>,
                      invoked |-> FALSE]
              /\ run[s].pc = "idle"

\* mcp_search is running for the second user's session and the sentence
\* query.
C14_Witness ==
    \E s \in Slots :
        /\ run[s].pc = "stage2"
        /\ req[s].auth = <<"Bearer", " ", "tokB">>
        /\ run[s].user_id = "u2"
        /\ run[s].query = WeekQuery

\* Whether some stored search term of entry, lowercased, is contained in the
\* lowercased query.
EntryMatches(entry, query) ==
    \E i \in 1..Len(entry.search_terms) :
        /\ IsString(entry.search_terms[i])
        /\ Contains(Lower(query), Lower(entry.search_terms[i]))

\* C15: _check_memory returns the entry of lowest index of the log one of
\* whose stored search terms, lowercased, is a substring of the lowercased
\* query, and no match exactly when the log has no such entry, whatever the
\* search terms of the current run are.
C15_FirstMatch ==
    \A s \in Slots :
        (Did(s, "memory_read") /\ ~run[s].io_fault)
        => LET log == run[s].log_checked
               sat == {k \in 1..Len(log) : EntryMatches(log[k], run[s].query)}
           IN IF sat = {}
              THEN run[s].matched = <<>>
              ELSE run[s].matched =
                       << log[CHOOSE k \in sat : \A j \in sat : k <= j] >>

\* C16: memory writer on an absent or corrupt log: a run that reached
\* _store_memory while the log file was absent or unparseable, and none of
\* whose own file operations failed, has on its return left a valid log that
\* consists of exactly its new entry.
C16_StartsEmptyLog ==
    \A s \in Slots :
        (/\ run[s].pc = "done"
         /\ Did(s, "store_read")
         /\ ~run[s].io_fault
         /\ run[s].log_read = <<>>)
        => /\ file.status = "valid"
           /\ Len(file.queries) = 1
           /\ file.queries[1].query = run[s].query
           /\ file.queries[1].search_terms = run[s].search_terms
           /\ file.queries[1].summary = run[s].response.final_summary

\* C17: a run whose intent extraction gave is_search = false returns by the
\* no-search exit: memory_used = false, no hits, and final_summary equal to
\* stage1_response, whatever the memory log holds.
C17_NoSearchExit ==
    \A s \in Slots :
        (run[s].pc = "done" /\ ~run[s].is_search)
        => /\ ~run[s].response.memory_used
           /\ run[s].response.algolia_hits = <<>>
           /\ run[s].response.final_summary = run[s].response.stage1_response
           /\ ~Did(s, "index_query")
           /\ ~Did(s, "generate_synthesis")

\* The names of the external operations a run has performed, in order.
OpNames(r) == [i \in 1..Len(r.ops) |-> r.ops[i].op]

\* C18: runs that end in a memory hit or in the no-search return leave the
\* memory log unchanged: such a run returns straight from Stage 2, having
\* performed the intent call and the memory read only (no index query, no
\* synthesis call, no log write), and no step it takes changes the log file.
C18_EarlyExitsWriteNothing ==
    [][\A s \in Slots :
          /\ (run[s].pc \in {"idle", "stage1", "stage2"} /\ run'[s] # run[s])
             => file' = file /\ nWrites' = nWrites
          /\ (/\ run[s].pc # "done"
              /\ run'[s].pc = "done"
              /\ (run'[s].response.memory_used \/ ~run'[s].is_search))
             => /\ run[s].pc = "stage2"
                /\ OpNames(run'[s]) = <<"generate_intent", "memory_read">>
                /\ run'[s].wrote_at = 0]_vars

\* A run has returned by a memory hit or by the no-search exit, over a log
\* that holds an entry, having made the intent call and the memory read only.
C18_Witness ==
    \E s \in Slots :
        /\ run[s].pc = "done"
        /\ file.status = "valid"
        /\ file.queries # <<>>
        /\ run[s].response.memory_used \/ ~run[s].is_search
        /\ OpNames(run[s]) = <<"generate_intent", "memory_read">>

\* ------------------------------------------- concurrent runs on a full log

\* Runs that go on to store, in one behaviour of FullLogSpec.
MaxFullLogRuns == 3

\* An entry stored by an earlier run whose search_terms were empty; i tells
\* the entries apart.
OldEntry(i) == NewEntry(BlankQuery, <<>>, <<"f","i","n","e">>, i)

\* memory_store.json before the runs: absent, or a log of 1, 49 or 50 entries.
StartLogs ==
    {AbsentFile}
    \cup {ValidFile([i \in 1..n |-> OldEntry(i)]) :
             n \in {1, MemoryKeep, MemoryKeep + 1}}

FullLogInit ==
    /\ file \in StartLogs
    /\ now = 1
    /\ run = [s \in Slots |-> Idle]
    /\ searches = 0
    /\ nWrites = 0
    /\ appended = <<>>
    /\ req = [s \in Slots |-> NoRequest]
    /\ stored_by = <<>>
    /\ WebInit

FullLogStart(s) == StartRun(s, {BlankQuery}, {"u1"}, 2)

FullLogMemory(s) == MemoryStage(s, {FALSE}, MaxFullLogRuns)

\* Two workers serve calls concurrently; every call searches with an empty
\* list of terms and stores.
FullLogNext ==
    \E s \in Slots :
        \/ FullLogStart(s)
        \/ LogIntent(s)
        \/ FullLogMemory(s)
        \/ LogSynthesis(s)
        \/ LogRead(s)
        \/ LogOpen(s)
        \/ LogDump(s)
        \/ Return(s)

FullLogSpec == FullLogInit /\ [][FullLogNext]_vars

\* C19: log bound under concurrency: in every reachable state of concurrent
\* runs started on an absent log or a log of at most 50 entries, the log
\* holds at most 50 entries, and the list a Memory Writer writes is the last
\* (up to) 49 entries of the log it read, in their order, followed by its new
\* entry; the log a completed last write leaves is that list.
C19_BoundUnderConcurrency ==
    /\ Len(file.queries) <= MemoryLimit
    /\ \A s \in Slots :
           run[s].pc \in {"store_open", "store_dump"} \/ run[s].wrote_at > 0
           => LET read == run[s].log_read
                  n == Len(read)
                  kept == IF n < MemoryLimit THEN read
                          ELSE SubSeq(read, n - MemoryLimit + 2, n)
              IN /\ Len(run[s].memory) = Len(kept) + 1
                 /\ Len(run[s].memory) <= MemoryLimit
                 /\ SubSeq(run[s].memory, 1, Len(kept)) = kept
                 /\ \E t \in 0..1 :
                        run[s].memory[Len(kept) + 1] = OwnEntry(s, t)
                 /\ (/\ run[s].wrote_at > 0
                     /\ run[s].wrote_at = nWrites
                     /\ file.status = "valid")
                    => file.queries = run[s].memory

\* Two runs raced on a log of 50 entries and both wrote: the log holds 50
\* entries, the oldest one evicted and the later writer's entry last.
C19_Witness ==
    \E a, b \in Slots :
        /\ Raced(a, b)
        /\ file.status = "valid"
        /\ Len(run[b].log_read) = MemoryLimit
        /\ Len(file.queries) = MemoryLimit
        /\ file.queries[1] = run[b].log_read[2]
        /\ file.queries[MemoryLimit] = OwnEntry(b, 1)

\* The external operations of a run that issues k index queries and goes on
\* to the end, in the order of the pipeline.
FullRun(k) ==
    <<"generate_intent", "memory_read">>
    \o [i \in 1..k |-> "index_query"]
    \o <<"generate_synthesis", "store_read", "store_write">>

\* C20: within one run the external operations occur in the fixed order
\* intent call, memory read, index queries, synthesis call, log read and log
\* write; each generation call is issued at most once, the i-th index query
\* is for the i-th search term (no query is issued twice), and a failed call
\* is not issued again: a failed index query is the last one of the run.
C20_FixedOrderNoRetry ==
    \A s \in Slots :
        LET names == OpNames(run[s])
            queries == SelectSeq(run[s].ops, LAMBDA o : o.op = "index_query")
        IN /\ \E k \in 0..Len(run[s].search_terms) :
                  names = Take(FullRun(k), Len(names))
           /\ Len(queries) <= Len(run[s].search_terms)
           /\ \A i \in 1..Len(queries) :
                  queries[i].term = run[s].search_terms[i]
           /\ run[s].query_failed
              => /\ run[s].pc # "stage3"
                 /\ run[s].pc = "stage4"
                    => /\ Len(run[s].answers) = Len(queries)
                       /\ run[s].answers[Len(queries)].http = "error"
           /\ run[s].pc = "stage2" => names = <<"generate_intent">>
           /\ run[s].pc = "store_read"
              => names[Len(names)] = "generate_synthesis"

\* A run has returned after its second index query failed and its synthesis
\* call failed: two queries for three terms, one synthesis call, one write.
C20_Witness ==
    \E s \in Slots :
        /\ run[s].pc = "done"
        /\ run[s].query_failed
        /\ run[s].synth_failed
        /\ Len(run[s].search_terms) = 3
        /\ OpNames(run[s]) = FullRun(2)

\* ------------------------------------------- several users on one pipeline

\* Runs that go on to search and to store, in one behaviour of SharedSpec.
MaxSharedSearches == 2

\* user_id: two users, or "" for None.
AllUsers == {"u1", "u2", ""}

\* The extraction fails, or gives the term "sleep" twice, or no term, or says
\* that no search is needed.
SharedIntentReplies ==
    { IntentReply("error", FALSE, Missing, Missing, Missing),
      IntentReply("ok", TRUE, <<"y","e","s">>, << Sleep, Sleep >>, <<"o","k">>),
      IntentReply("ok", TRUE, <<"y","e","s">>, <<>>, <<"o","k">>),
      IntentReply("ok", TRUE, <<"n","o">>, <<>>, <<"o","k">>) }

SharedStart(s) == StartRun(s, {WeekQuery}, AllUsers, 1)

SharedIntent(s) == IntentStage(s, SharedIntentReplies)

SharedMemory(s) == MemoryStage(s, {FALSE}, MaxSharedSearches)

\* One worker serves the calls of several users one after the other; index
\* queries may fail, and the history of the entries written is kept.
SharedNext ==
    \E s \in Worker :
        \/ SharedStart(s)
        \/ SharedIntent(s)
        \/ SharedMemory(s)
        \/ Search(s)
        \/ LogSynthesis(s)
        \/ LogRead(s)
        \/ LogOpen(s)
        \/ LogDump(s)
        \/ Return(s)

SharedSpec == Init /\ [][SharedNext]_vars

\* The index queries run s has issued, in order.
IssuedQueries(s) == SelectSeq(run[s].ops, LAMBDA o : o.op = "index_query")

\* Whether run s has entered the Search Executor.
InExecutor(s) ==
    \/ run[s].pc \in {"stage3", "stage4"}
    \/ Did(s, "generate_synthesis")

\* C21: when no term query fails, a run that reaches the Search Executor
\* issues exactly one index query per element of search_terms, duplicates
\* included, in input order, each requesting at most 10 hits; with empty
\* search_terms it issues no query and the hit list is empty.
C21_OneQueryPerTerm ==
    \A s \in Slots :
        (InExecutor(s) /\ ~run[s].query_failed)
        => LET queries == IssuedQueries(s)
               terms == run[s].search_terms
           IN /\ Len(queries) = IF run[s].pc = "stage3"
                                THEN run[s].term - 1 ELSE Len(terms)
              /\ \A i \in 1..Len(queries) :
                     /\ queries[i].term = terms[i]
                     /\ queries[i].hitsPerPage <= 10
              /\ terms = <<>>
                 => /\ queries = <<>>
                    /\ run[s].pc # "stage3"
                    /\ run[s].response.algolia_hits = <<>>

\* A run with the terms "sleep", "sleep" has ended its term loop: two queries
\* for "sleep" were issued.
C21_Witness ==
    \E s \in Slots :
        /\ run[s].pc = "stage4"
        /\ ~run[s].query_failed
        /\ run[s].search_terms = << Sleep, Sleep >>
        /\ Len(IssuedQueries(s)) = 2
        /\ IssuedQueries(s)[1].term = Sleep
        /\ IssuedQueries(s)[2].term = Sleep

\* C22: every index query issued by a run called with a user_id carries the
\* filter "user_id:<that user_id>" and no other user's id; a run called
\* without a user_id passes the empty filter.
C22_OwnFilter ==
    \A s \in Slots :
        \A i \in 1..Len(IssuedQueries(s)) :
            LET filter == IssuedQueries(s)[i].filter IN
            /\ run[s].user_id # ""
               => /\ filter = <<"user_id:", run[s].user_id>>
                  /\ \A u \in AllUsers \ {run[s].user_id, ""} :
                         u \notin Range(filter)
            /\ run[s].user_id = "" => filter = <<>>

\* A run of the second user has issued its queries, each with the filter
\* "user_id:u2".
C22_Witness ==
    \E s \in Slots :
        /\ run[s].user_id = "u2"
        /\ run[s].pc = "stage4"
        /\ Len(IssuedQueries(s)) = 3
        /\ \A i \in 1..3 : IssuedQueries(s)[i].filter = <<"user_id:", "u2">>

\* The number of elements of terms that satisfy test.
Matches(terms, test(_)) == Cardinality({i \in 1..Len(terms) : test(terms[i])})

\* 3 for every term in the title, 2 for every term in the summary, 1 for
\* every term in some tag.
WeightedMatches(hit, terms) ==
    3 * Matches(terms, LAMBDA t : InTitle(hit, t))
    + 2 * Matches(terms, LAMBDA t : InSummary(hit, t))
    + Matches(terms, LAMBDA t : InTags(hit, t))

\* C23: relevance score: the score of a hit is the sum, over every element of
\* search_terms (duplicates counted each time), of 3 if the lowercased term is
\* in the lowercased title, plus 2 if it is in the lowercased summary, plus 1
\* if it is in at least one lowercased tag; there is no cap.
C23_RelevanceScore ==
    \A s \in Slots :
        run[s].pc \in {"sorted", "resorted"}
        => /\ Len(run[s].scores) = Len(run[s].algolia_results)
           /\ \A i \in 1..Len(run[s].scores) :
                  run[s].scores[i] =
                      WeightedMatches(run[s].algolia_results[i],
                                      run[s].search_terms)

\* For the terms "sleep", "sleep" the hit with "sleep" in title and tag scores
\* 8 and the hit with "sleep" in two tags scores 2.
C23_Witness ==
    \E s \in Slots :
        /\ run[s].pc = "sorted"
        /\ run[s].search_terms = << Sleep, Sleep >>
        /\ run[s].algolia_results = <<HitTwoTags, HitTitleTag>>
        /\ run[s].scores = <<2, 8>>

\* The position of hit x in a list of distinct hits.
PosIn(hits, x) == CHOOSE k \in 1..Len(hits) : hits[k] = x

\* C24: _sort_by_relevance returns a permutation of its input ordered by
\* descending score, ties broken by descending string comparison of
\* timestamp, hits of equal score and equal timestamp keeping their input
\* order; and ranking an already ranked list with the same terms leaves it
\* unchanged.
C24_StableOrder ==
    \A s \in Slots :
        run[s].pc \in {"sorted", "resorted"}
        => LET in == run[s].algolia_results
               out == run[s].response.algolia_hits
               score(h) == WeightedMatches(h, run[s].search_terms)
           IN /\ Len(out) = Len(in)
              /\ Range(out) = Range(in)
              /\ \A i, j \in 1..Len(out) :
                     i < j
                     => /\ score(out[i]) >= score(out[j])
                        /\ score(out[i]) = score(out[j])
                           => ~StrGreater(out[j].timestamp, out[i].timestamp)
                        /\ (/\ score(out[i]) = score(out[j])
                            /\ out[i].timestamp = out[j].timestamp)
                           => PosIn(in, out[i]) < PosIn(in, out[j])
              /\ run[s].pc = "resorted" => out = in

\* Two hits of equal score and timestamp came before and after a title hit:
\* the title hit is first in the result and the two keep their order.
C24_Witness ==
    \E s \in Slots :
        /\ run[s].pc = "sorted"
        /\ run[s].search_terms = << Sleep >>
        /\ run[s].algolia_results = <<HitTag2, HitTitle, HitTag>>
        /\ run[s].response.algolia_hits = <<HitTitle, HitTag2, HitTag>>

\* Whether the intent reply of run s, which is at Stage 2, parsed as a JSON
\* object.
ParsedReply(s) ==
    /\ run[s].pc = "stage2"
    /\ run[s].intent_reply \in {"well_formed", "malformed_fields"}

\* A run that has returned without a memory hit and with is_search false has
\* returned stage1_response as final_summary and has not searched.
NoSearchReturn(s) ==
    (/\ run[s].pc = "done"
     /\ ~run[s].is_search
     /\ ~run[s].response.memory_used)
    => /\ run[s].response.final_summary = run[s].response.stage1_response
       /\ ~Did(s, "index_query")
       /\ ~Did(s, "generate_synthesis")

\* C25 as stated: when the intent call returns parseable JSON, is_search is
\* true if and only if the returned is_search string equals "yes" ignoring
\* case; a missing is_search field is treated as "no", after which the run
\* (absent a memory hit) returns stage1_response as final_summary without
\* searching.
C25_YesIgnoringCase ==
    \A s \in Slots :
        /\ ParsedReply(s)
           => LET raw == run[s].raw_is_search IN
              /\ (raw # Missing /\ IsString(raw))
                 => (run[s].is_search <=> Lower(raw) = <<"y","e","s">>)
              /\ raw = Missing => ~run[s].is_search
        /\ NoSearchReturn(s)

\* C25 amended: when the intent call returns a JSON object whose is_search is
\* a string, is_search is true if and only if that string, with leading and
\* trailing whitespace removed, equals "yes" ignoring case; a missing
\* is_search field is treated as "no", after which the run (absent a memory
\* hit) returns stage1_response as final_summary without searching.
C25_YesStrippedIgnoringCase ==
    \A s \in Slots :
        /\ ParsedReply(s)
           => LET raw == run[s].raw_is_search IN
              /\ (raw # Missing /\ IsString(raw))
                 => (run[s].is_search
                     <=> Lower(RStrip(LStrip(raw))) = <<"y","e","s">>)
              /\ raw = Missing => ~run[s].is_search
        /\ NoSearchReturn(s)

\* The reply carried is_search = "Yes " and the run has is_search true.
C25_Witness ==
    \E s \in Slots :
        /\ ParsedReply(s)
        /\ run[s].raw_is_search = <<"Y","e","s"," ">>
        /\ run[s].is_search

\* ------------------------------------------------------ the rate limiter

\* The window, in seconds, and the two limits of rate_limit_middleware.
RateWindow == 60

AuthLimit == 10

OtherLimit == 100

\* request.url.path.startswith("/auth/")
IsAuthPath(path) == StartsWith(path, <<"/auth/">>)

\* The times of seq that lie less than RateWindow before current_time.
Recent(seq, current_time) ==
    SelectSeq(seq, LAMBDA t : current_time - t < RateWindow)

\* A middleware that lets a request through when the limit is just reached:
\* > in place of >=.
RateLimitOneMore(environment, times, current_time, path) ==
    LET kept == Recent(times, current_time)
        limit == IF IsAuthPath(path) THEN AuthLimit ELSE OtherLimit
    IN IF environment # "production"
       THEN [status |-> 200, times |-> times]
       ELSE IF Len(kept) > limit
       THEN [status |-> 429, times |-> kept]
       ELSE [status |-> 200, times |-> Append(kept, current_time)]

\* rate_limit_middleware for a request to path at current_time, of a client
\* whose recorded times are times: status 429 for the HTTPException, 200 when
\* the request is passed on to call_next, and the times recorded afterwards.
RateLimit(environment, times, current_time, path) ==
    LET kept == Recent(times, current_time)
        limit == IF IsAuthPath(path) THEN AuthLimit ELSE OtherLimit
    IN IF environment # "production"
       THEN [status |-> 200, times |-> times]
       ELSE IF Len(kept) >= limit
       THEN [status |-> 429, times |-> kept]
       ELSE [status |-> 200, times |-> Append(kept, current_time)]

\* A request of client ip arrives.
RateLimitStep(ip, paths, environment) ==
    /\ \E path \in paths :
          LET r == RateLimit(environment, request_counts[ip], now, path) IN
          /\ request_counts' = [request_counts EXCEPT ![ip] = r.times]
          /\ verdict' = [ip |-> ip, auth_path |-> IsAuthPath(path),
                         status |-> r.status]
          /\ admitted' =
                 IF r.status # 200 THEN admitted
                 ELSE IF IsAuthPath(path)
                 THEN [admitted EXCEPT ![ip].auth = Append(@, now)]
                 ELSE [admitted EXCEPT ![ip].other = Append(@, now)]
    /\ UNCHANGED <<file, now, run, searches, nWrites, appended, req,
                   stored_by, index, uuids, outcomes>>

\* Time passes: time.time() has advanced by seconds at the next request.  The
\* history admitted drops the requests that no window of RateWindow seconds
\* can hold together with a request still to come.
Tick(seconds, max_clock) ==
    /\ now + seconds <= max_clock
    /\ now' = now + seconds
    /\ admitted' = [ip \in ClientIPs |->
                       [auth |-> Recent(admitted[ip].auth, now + seconds),
                        other |-> Recent(admitted[ip].other, now + seconds)]]
    /\ UNCHANGED <<file, run, searches, nWrites, appended, req, stored_by,
                   request_counts, verdict, index, uuids, outcomes>>

\* The last reading of the clock in a behaviour of RateSpec.
MaxClock == 61

\* The paths requested: one under /auth/ and one that is not.
Paths == { <<"/auth/", "login">>, <<"/search">> }

ClientRequest(ip) == RateLimitStep(ip, Paths, "production")

HalfMinute == Tick(30, MaxClock)

\* One client sends requests in production mode, as many as it likes, at
\* three readings of the clock half a minute apart.
RateNext ==
    \/ ClientRequest("ip1")
    \/ HalfMinute

RateSpec == Init /\ [][RateNext]_vars

\* The number of times of seq inside the window of 60 seconds that starts
\* at w: w <= t < w + 60.
InWindow(seq, w) ==
    Cardinality({i \in 1..Len(seq) : w <= seq[i] /\ seq[i] < w + 60})

\* For every client and every window of 60 seconds, at most 100 requests let
\* through have their arrival time in the window, at most 10 of them to paths
\* under /auth/.
WindowBound ==
    \A ip \in ClientIPs :
        \A w \in Range(admitted[ip].auth) \cup Range(admitted[ip].other) :
            /\ InWindow(admitted[ip].auth, w) + InWindow(admitted[ip].other, w)
                   <= 100
            /\ InWindow(admitted[ip].auth, w) <= 10

\* A request that arrives when the limit of its path is reached (as many
\* requests of the client were let through less than 60 seconds before) gets
\* status 429 and leaves no new time in the client's recorded times.
RejectStep ==
    now' = now
    => LET ip == verdict'.ip
           before == {i \in 1..Len(request_counts[ip]) :
                         now - request_counts[ip][i] < 60}
           limit == IF verdict'.auth_path THEN 10 ELSE 100
       IN /\ Cardinality(before) >= limit
             => /\ verdict'.status = 429
                /\ Len(request_counts'[ip]) = Cardinality(before)
                /\ now \notin Range(request_counts'[ip])
                   \/ now \in Range(request_counts[ip])
                /\ admitted' = admitted
          /\ verdict'.status = 429 => Cardinality(before) >= limit

\* C26: in production mode, for every client IP, at most 100 requests let
\* through by rate_limit_middleware have arrival times inside any window of
\* 60 seconds, and at most 10 requests to paths under /auth/; a request that
\* arrives when the limit is reached is rejected with status 429 and is not
\* added to the client's recorded request times.
C26_RateLimit == []WindowBound /\ [][RejectStep]_vars

\* 100 requests of a client were let through at two readings of the clock
\* inside one window, 10 of them to /auth/, and the next request got 429.
C26_Witness ==
    /\ verdict = [ip |-> "ip1", auth_path |-> FALSE, status |-> 429]
    /\ now = 31
    /\ Len(admitted["ip1"].auth) = 10
    /\ Len(admitted["ip1"].other) = 90
    /\ Len(request_counts["ip1"]) = 100
    /\ request_counts["ip1"][1] = 1
    /\ request_counts["ip1"][100] = 31

\* C27: per-user isolation of answers: the final_summary a run returns for
\* user_id u comes from index hits queried with u's filter or from a Memory
\* Entry stored by an earlier run for the same user_id u; a run for one user
\* never returns a summary stored by a run for a different user.
C27_UserIsolation ==
    \A s \in Slots :
        /\ \A i \in 1..Len(IssuedQueries(s)) :
               IssuedQueries(s)[i].filter = FilterStr(run[s].user_id)
        /\ run[s].response.memory_used
           => \E i \in 1..Len(appended) :
                  /\ appended[i] = run[s].matched[1]
                  /\ stored_by[i] = run[s].user_id

\* Whether every stored search term of every entry of log is a string.
StringTerms(log) ==
    \A k \in 1..Len(log) :
        \A i \in 1..Len(log[k].search_terms) : IsString(log[k].search_terms[i])

\* Whether entry is the one a run for query that took the intent fallback
\* path stores: its terms are the first three tokens of the lowercased query.
FallbackEntry(entry, query) ==
    /\ entry.query = query
    /\ entry.search_terms = Take(Split(Lower(query)), 3)

\* C28: cache visibility across runs: when a run for a non-blank query Q that
\* took the intent fallback path has written its entry, and every entry of
\* the log has search terms that are strings, a later run with the same query
\* Q whose memory check reads a log that still holds that entry is a memory
\* hit (memory_used = true), whatever its own intent extraction gave.
C28_CacheVisibility ==
    \A s \in Slots :
        (/\ Did(s, "memory_read")
         /\ ~run[s].io_fault
         /\ StringTerms(run[s].log_checked)
         /\ Split(run[s].query) # <<>>
         /\ \E k \in 1..Len(run[s].log_checked) :
                FallbackEntry(run[s].log_checked[k], run[s].query))
        => /\ run[s].response.memory_used
           /\ run[s].pc = "done"
           /\ ~Did(s, "index_query")

\* A run whose own intent extraction succeeded has returned the entry that
\* an earlier run for the same query stored on the fallback path.
C28_Witness ==
    \E s \in Slots :
        /\ run[s].pc = "done"
        /\ run[s].response.memory_used
        /\ ~run[s].intent_failed
        /\ run[s].query = WeekQuery
        /\ FallbackEntry(run[s].matched[1], WeekQuery)

\* The hits of all with a non-empty objectID that no earlier hit of all
\* carries, cleaned, in the order of all.
FirstOccurrences(all) ==
    LET firsts == {k \in 1..Len(all) :
                      /\ all[k].objectID # ""
                      /\ \A m \in 1..(k - 1) :
                             all[m].objectID # all[k].objectID}
        nth(i) == CHOOSE k \in firsts :
                      Cardinality({j \in firsts : j <= k}) = i
    IN [i \in 1..Cardinality(firsts) |-> CleanHit(all[nth(i)])]

\* C29: the merged hit sequence of the Search Executor lists the hits in
\* order of first occurrence (term queries in input order, hits in the order
\* each query returned them) and holds exactly the returned hits that carry a
\* non-empty document id, each id once; a returned hit without an id is
\* dropped.
C29_MergeOrder ==
    \A s \in Slots :
        /\ run[s].pc = "stage3"
           => run[s].algolia_results = FirstOccurrences(AllHits(run[s].answers))
        /\ (run[s].pc = "stage4" /\ ~run[s].query_failed)
           => run[s].merged = FirstOccurrences(AllHits(run[s].answers))

\* The first query returned a copy of document 1, a hit without id and
\* document 2, the second one document 1 again: the merged hits are the
\* first copy of document 1 and document 2.
C29_Witness ==
    \E s \in Slots :
        /\ run[s].pc = "stage4"
        /\ ~run[s].query_failed
        /\ Len(run[s].answers) = 2
        /\ run[s].answers[1].hits = <<HitA2, HitNoId, HitB>>
        /\ run[s].answers[2].hits = <<HitA>>
        /\ run[s].merged = <<CleanHit(HitA2), CleanHit(HitB)>>

\* ---------------------------------------------------------------------------
\* POST /index (routes/stream.py, index_entry).  The search index is the
\* sequence `index` of its documents in the order of their creation; `uuids`
\* counts the values uuid.uuid4() has returned, and `outcomes` keeps, for
\* every call of the handler, what it was asked and what it answered.
\* ---------------------------------------------------------------------------

MaxIndexCalls == 2

NoId == 0

Doc(objectID, user_id, session_id, title) ==
    [objectID |-> objectID, user_id |-> user_id, session_id |-> session_id,
     title |-> title]

\* hitsPerPage of the lookup with filters and of the one without.
LookupPage == 1

FallbackPage == 1000

\* f"session_id:{data['session_id']} AND user_id:{user.id}"
IndexFilter(session_id, user_id) ==
    <<"session_id:", session_id, " AND ", "user_id:", user_id>>

\* A lookup that filters on the session only.
FilterLookupBySession(idx, filters) ==
    Take(SelectSeq(idx, LAMBDA d : d.session_id = filters[2]), LookupPage)

\* The hits of the first lookup: the documents that satisfy both conditions
\* of the filter, one page of them.
FilterLookup(idx, filters) ==
    Take(SelectSeq(idx, LAMBDA d : /\ d.session_id = filters[2]
                                   /\ d.user_id = filters[5]),
         LookupPage)

\* The hits of the lookup without filters: one page of the whole index.
FallbackLookup(idx) == Take(idx, FallbackPage)

\* The loop over fallback_hits: the first hit of this session and user, as a
\* sequence of at most one document.
MatchingEntry(hits, session_id, user_id) ==
    Take(SelectSeq(hits, LAMBDA d : /\ d.session_id = session_id
                                    /\ d.user_id = user_id), 1)

\* algolia_client.save_object: the document replaces the one with its
\* objectID, or is added.
save_object(idx, entry) ==
    IF \E i \in DOMAIN idx : idx[i].objectID = entry.objectID
    THEN [i \in DOMAIN idx |->
             IF idx[i].objectID = entry.objectID THEN entry ELSE idx[i]]
    ELSE Append(idx, entry)

IndexBody(json, complete, session_id, title) ==
    [json |-> json, complete |-> complete, session_id |-> session_id,
     title |-> title]

\* index_entry(request) on the index idx, with next_uuid the value uuid4
\* would return.  lookup and fallback are what the two lookups do: "hits"
\* (status 200 and the hits the index has), "nohits" (status 200 and no hit:
\* the attributes are not filterable), "status" (another status), "raises";
\* the lookup without filters has no "nohits".  save is "ok", "save_raises"
\* or "wait_raises".  The answer: the HTTP status, the result or "error" or
\* "missing", the entry_id returned, the index and the uuid count after the
\* call, whether every lookup made was answered with status 200, and whether
\* a document was saved.
index_entry(idx, drawn, auth_header, auth_up, body, lookup, fallback, save) ==
    LET u == get_user_from_token(auth_header, auth_up)
        stop(status, result, lookups_ok) ==
            [status |-> status, result |-> result, entry_id |-> NoId,
             index |-> idx, uuids |-> drawn, lookups_ok |-> lookups_ok,
             saved |-> FALSE]
        store(entry_id, result, count, lookups_ok) ==
            LET entry == Doc(entry_id, u.user, body.session_id, body.title) IN
            IF save = "save_raises"
            THEN [stop(200, "error", lookups_ok) EXCEPT !.uuids = count]
            ELSE IF save = "wait_raises"
            THEN [stop(200, "error", lookups_ok) EXCEPT
                      !.uuids = count,
                      !.index = save_object(idx, entry),
                      !.saved = TRUE]
            ELSE [status |-> 200, result |-> result, entry_id |-> entry_id,
                  index |-> save_object(idx, entry), uuids |-> count,
                  lookups_ok |-> lookups_ok, saved |-> TRUE]
        create(lookups_ok) == store(drawn + 1, "created", drawn + 1, lookups_ok)
        update(hit) == store(hit.objectID, "updated", drawn, TRUE)
    IN IF u.status = 401 THEN stop(401, "", TRUE)
       ELSE IF ~body.json THEN stop(500, "", TRUE)
       ELSE IF ~body.complete THEN stop(200, "missing", TRUE)
       ELSE IF lookup = "raises" THEN stop(200, "error", FALSE)
       ELSE IF lookup = "status" THEN create(FALSE)
       ELSE LET hits == IF lookup = "nohits" THEN <<>>
                        ELSE FilterLookup(idx, IndexFilter(body.session_id,
                                                           u.user))
            IN IF hits # <<>> THEN update(hits[1])
               ELSE IF fallback = "raises" THEN stop(200, "error", FALSE)
               ELSE IF fallback = "status" THEN create(FALSE)
               ELSE LET matching_entry ==
                            MatchingEntry(FallbackLookup(idx),
                                          body.session_id, u.user)
                    IN IF matching_entry # <<>> THEN update(matching_entry[1])
                       ELSE create(TRUE)

\* One call of POST /index from start to end, at most max_calls of them.
IndexEntryStep(headers, bodies, max_calls) ==
    /\ Len(outcomes) < max_calls
    /\ \E auth_header \in headers, auth_up \in BOOLEAN, body \in bodies,
          lookup \in {"hits", "nohits", "status", "raises"},
          fallback \in {"hits", "status", "raises"},
          save \in {"ok", "save_raises", "wait_raises"} :
          LET a == index_entry(index, uuids, auth_header, auth_up, body,
                               lookup, fallback, save)
              accepted == a.status = 200 /\ a.result # "missing"
          IN /\ index' = a.index
             /\ uuids' = a.uuids
             /\ outcomes' =
                    Append(outcomes,
                           [user |-> IF accepted
                                     THEN get_user_from_token(auth_header,
                                                              auth_up).user
                                     ELSE "",
                            session_id |-> IF accepted THEN body.session_id
                                           ELSE "",
                            title |-> IF accepted THEN body.title ELSE "",
                            status |-> a.status,
                            result |-> a.result,
                            entry_id |-> a.entry_id,
                            lookups_ok |-> a.lookups_ok,
                            saved |-> a.saved])
    /\ UNCHANGED <<file, now, run, searches, nWrites, appended, req,
                   stored_by, request_counts, admitted, verdict>>

\* The Authorization headers of the calls of /index: none, and a session of
\* each of two users.
IndexHeaders ==
    { Missing, <<"Bearer", " ", "tokA">>, <<"Bearer", " ", "tokB">> }

SessionIds == {"s1", "s2"}

\* The bodies of the calls of /index: text that is not JSON, an object
\* without some required field, an entry of one session under two titles and
\* an entry of another session.
IndexBodies ==
    { IndexBody(FALSE, FALSE, "", ""),
      IndexBody(TRUE, FALSE, "", ""),
      IndexBody(TRUE, TRUE, "s1", "t1"),
      IndexBody(TRUE, TRUE, "s1", "t2"),
      IndexBody(TRUE, TRUE, "s2", "t1") }

IndexCall == IndexEntryStep(IndexHeaders, IndexBodies, MaxIndexCalls)

IndexNext == IndexCall

IndexSpec == Init /\ [][IndexNext]_vars

\* The calls of /index for a user and a session that got as far as the
\* lookups, in their order.
CallsOf(user_id, session_id) ==
    SelectSeq(outcomes, LAMBDA o : /\ o.user = user_id
                                   /\ o.session_id = session_id
                                   /\ o.result \in {"created", "updated",
                                                    "error"})

DocsOf(user_id, session_id) ==
    { i \in DOMAIN index : /\ index[i].user_id = user_id
                           /\ index[i].session_id = session_id }

IndexUsers == {"u1", "u2"}

====
